---- MODULE Spec2Model ----
(***************************************************************************)
(* State-machine model of the DatePicker class of src/Datepicker.js (the   *)
(* range/schedule-capable version, lines 1159-3194).                       *)
(*                                                                         *)
(* A Date is modelled by its local timestamp in whole minutes since        *)
(* 1970-01-01 00:00 (the code never looks at seconds of a stored value);   *)
(* null/undefined is NULL.  Text (the bound field, date strings) is a      *)
(* sequence of one-character strings, a format pattern is a sequence of    *)
(* tokens (yyyy, MM, dd, HH, hh, mm, a) and literal characters.            *)
(***************************************************************************)
EXTENDS Integers, Sequences, FiniteSets, TLC

\* ------------------------------------------------------------------ bounds
\* number of candidate calendar days offered to clicks and setters
MaxDays == 2
\* number of candidate hour values offered to the time controls
MaxHours == 1
\* months before and after the present one that navigation is followed through
MaxMonths == 1

NULL == -1
MinutesPerDay == 1440

\* 2024-03-10 (a Sunday) as a day number since 1970-01-01
BaseDay == 19792
\* distance, in days, between two candidate days: 2024-03-10, -15, -20, ...
DayGap == 5

\* v bound to the name of F's parameter: a local variable of the code
Bind(v, F(_)) == F(v)

\* days since 1970-01-01 of the proleptic Gregorian date y-m-d (m in 1..12);
\* d may lie outside the month, as the Date constructor lets it
DaysFromCivil(y, m, d) ==
  Bind(IF m <= 2 THEN y - 1 ELSE y, LAMBDA yy :
  Bind(yy \div 400, LAMBDA era :
  Bind(yy - era * 400, LAMBDA yoe :
    era * 146097 + yoe * 365 + yoe \div 4 - yoe \div 100
      + (153 * (IF m > 2 THEN m - 3 ELSE m + 9) + 2) \div 5 + d - 1 - 719468)))

\* [y, m, d] (m in 1..12) of day number z
CivilFromDays(z) ==
  Bind(z + 719468, LAMBDA zz :
  Bind(zz \div 146097, LAMBDA era :
  Bind(zz - era * 146097, LAMBDA doe :
  Bind((doe - doe \div 1460 + doe \div 36524 - doe \div 146096) \div 365, LAMBDA yoe :
  Bind(doe - (365 * yoe + yoe \div 4 - yoe \div 100), LAMBDA doy :
  Bind((5 * doy + 2) \div 153, LAMBDA mp :
  Bind(IF mp < 10 THEN mp + 3 ELSE mp - 9, LAMBDA m :
    [y |-> yoe + era * 400 + (IF m <= 2 THEN 1 ELSE 0), m |-> m,
     d |-> doy - (153 * mp + 2) \div 5 + 1])))))))

\* new Date(year, monthIndex, day, hours, minutes): out-of-range fields carry over
NewDate(year, monthIndex, day, hours, minutes) ==
  (DaysFromCivil(year + monthIndex \div 12, (monthIndex % 12) + 1, 1) + (day - 1))
    * MinutesPerDay + hours * 60 + minutes

getFullYear(date) == CivilFromDays(date \div MinutesPerDay).y
\* 0-based month, as in JavaScript
getMonth(date)    == CivilFromDays(date \div MinutesPerDay).m - 1
getDate(date)     == CivilFromDays(date \div MinutesPerDay).d
getHours(date)    == (date % MinutesPerDay) \div 60
getMinutes(date)  == date % 60
\* 0 = Sunday; 1970-01-01 was a Thursday
getDay(date)      == (date \div MinutesPerDay + 4) % 7

isValidDate(maybeDate) == maybeDate # NULL

Min(a, b) == IF a < b THEN a ELSE b
Max(a, b) == IF a > b THEN a ELSE b

\* clampMinuteToStep with the upper multiple taken on a tie
clampMinuteToStep_TieUp(minute, step) ==
  Bind(IF step = 0 THEN 5 ELSE step, LAMBDA s :
    IF s <= 0 THEN minute
    ELSE Bind((minute \div s) * s, LAMBDA down :
         Bind(((minute + s - 1) \div s) * s, LAMBDA up :
           IF minute - down < up - minute THEN down % 60 ELSE up % 60)))

clampMinuteToStep(minute, step) ==
  Bind(IF step = 0 THEN 5 ELSE step, LAMBDA s :
    IF s <= 0 THEN minute
    ELSE Bind((minute \div s) * s, LAMBDA down :
         Bind(((minute + s - 1) \div s) * s, LAMBDA up :
           IF minute - down <= up - minute THEN down % 60 ELSE up % 60)))

startOfDay(localDate) ==
  NewDate(getFullYear(localDate), getMonth(localDate), getDate(localDate), 0, 0)

areSameCalendarDate(a, b) ==
  IF ~isValidDate(a) \/ ~isValidDate(b) THEN FALSE
  ELSE /\ getFullYear(a) = getFullYear(b)
       /\ getMonth(a) = getMonth(b)
       /\ getDate(a) = getDate(b)

addDays(baseDate, days) ==
  NewDate(getFullYear(baseDate), getMonth(baseDate), getDate(baseDate) + days, 0, 0)

addMonths(baseDate, months) ==
  NewDate(getFullYear(baseDate), getMonth(baseDate) + months, 1, 0, 0)

startOfMonth(date) == NewDate(getFullYear(date), getMonth(date), 1, 0, 0)

startOfWeek(date, firstDayOfWeek) == addDays(date, -((getDay(date) - firstDayOfWeek + 7) % 7))

isDateOutOfBounds(date, minDate, maxDate) ==
  IF ~isValidDate(date) THEN TRUE
  ELSE IF isValidDate(minDate) /\ date < minDate THEN TRUE
  ELSE IF isValidDate(maxDate) /\ date > maxDate THEN TRUE
  ELSE FALSE

\* ---------------------------------------------------------------------- text
DigitChars == <<"0", "1", "2", "3", "4", "5", "6", "7", "8", "9">>
IsDigit(c) == \E i \in 1..10 : DigitChars[i] = c
DigitValue(c) == (CHOOSE i \in 1..10 : DigitChars[i] = c) - 1

RECURSIVE NumberToText(_)
\* String(n) for a non-negative integer n
NumberToText(n) ==
  IF n < 10 THEN <<DigitChars[n + 1]>>
  ELSE NumberToText(n \div 10) \o <<DigitChars[(n % 10) + 1]>>

RECURSIVE TextToNumber(_)
\* Number(text) for a text of decimal digits
TextToNumber(text) ==
  IF text = <<>> THEN 0
  ELSE TextToNumber(SubSeq(text, 1, Len(text) - 1)) * 10 + DigitValue(text[Len(text)])

RECURSIVE padStartNumber(_, _)
padStartNumber(value, length) ==
  IF Len(NumberToText(value)) >= length THEN NumberToText(value)
  ELSE <<"0">> \o SubSeq(padStartNumber(value, length - 1), 1, length - 1)

\* the tokens formatDate and parseDate substitute; every other pattern element
\* is a literal character
FormatTokens == {"yyyy", "MM", "dd", "HH", "hh", "mm", "a"}

DEFAULT_FORMAT == <<"yyyy", "-", "MM", "-", "dd">>

\* what formatDate substitutes for one pattern element
FormatToken(date, tok) ==
  CASE tok = "yyyy" -> NumberToText(getFullYear(date))
    [] tok = "MM"   -> padStartNumber(getMonth(date) + 1, 2)
    [] tok = "dd"   -> padStartNumber(getDate(date), 2)
    [] tok = "HH"   -> padStartNumber(getHours(date), 2)
    [] tok = "hh"   -> padStartNumber(IF getHours(date) % 12 = 0 THEN 12
                                      ELSE getHours(date) % 12, 2)
    [] tok = "mm"   -> padStartNumber(getMinutes(date), 2)
    [] tok = "a"    -> IF getHours(date) >= 12 THEN <<"P", "M">> ELSE <<"A", "M">>
    [] OTHER        -> <<tok>>

\* \w of a regular expression, for a pattern element: a token stands for the
\* digits or letters it was replaced by
Letters ==
  {"a", "b", "c", "d", "e", "f", "g", "h", "i", "j", "k", "l", "m", "n", "o", "p",
   "q", "r", "s", "t", "u", "v", "w", "x", "y", "z", "A", "B", "C", "D", "E", "F",
   "G", "H", "I", "J", "K", "L", "M", "N", "O", "P", "Q", "R", "S", "T", "U", "V",
   "W", "X", "Y", "Z", "_"}
WordChar(e) == e \in FormatTokens \/ e \in Letters \/ IsDigit(e)

\* /\ba\b/ of formatDate, the other tokens being replaced already: the a at k
\* is replaced when no word character stands on either side of it
FormatsMeridiem(formatString, k) ==
  /\ (k = 1 \/ ~WordChar(formatString[k - 1]))
  /\ (k = Len(formatString) \/ ~WordChar(formatString[k + 1]))

\* /\ba/ of parseDate, the other tokens being replaced by groups that end in
\* ")": the a at k is replaced unless a literal word character stands before it
ParsesMeridiem(fmt, k) ==
  \/ k = 1
  \/ fmt[k - 1] \in FormatTokens \ {"a"}
  \/ ~WordChar(fmt[k - 1])

RECURSIVE FormatFrom(_, _, _)
FormatFrom(date, formatString, k) ==
  IF k > Len(formatString) THEN <<>>
  ELSE (IF formatString[k] = "a" /\ ~FormatsMeridiem(formatString, k) THEN <<"a">>
        ELSE FormatToken(date, formatString[k]))
       \o FormatFrom(date, formatString, k + 1)

formatDate(date, formatString) ==
  IF ~isValidDate(date) THEN <<>> ELSE FormatFrom(date, formatString, 1)

\* the named groups of parseDate's regular expression; -1 / <<>> = did not take part
NoGroups ==
  [year |-> -1, month |-> -1, day |-> -1, hour24 |-> -1, hour12 |-> -1,
   minute |-> -1, ampm |-> <<>>]
NoMatch == [nomatch |-> TRUE]

AllDigits(text, i, n) ==
  /\ i + n - 1 <= Len(text)
  /\ \A j \in i..(i + n - 1) : IsDigit(text[j])

GroupOf(tok) ==
  CASE tok = "yyyy" -> "year" [] tok = "MM" -> "month" [] tok = "dd" -> "day"
    [] tok = "HH" -> "hour24" [] tok = "hh" -> "hour12" [] tok = "mm" -> "minute"

\* the digits text[i..i+n-1] taken for the group of tok, and the rest matched
RECURSIVE TakeDigits(_, _, _, _, _, _)
RECURSIVE MatchFrom(_, _, _, _, _)
TakeDigits(fmt, k, text, i, g, n) ==
  IF AllDigits(text, i, n)
  THEN MatchFrom(fmt, k + 1, text, i + n,
                 [g EXCEPT ![GroupOf(fmt[k])] = TextToNumber(SubSeq(text, i, i + n - 1))])
  ELSE NoMatch

\* the anchored match of text[i..] against the pattern elements fmt[k..], with
\* the regular expression's own preference (\d{1,2} takes two digits first)
MatchFrom(fmt, k, text, i, g) ==
  IF k > Len(fmt) THEN (IF i = Len(text) + 1 THEN g ELSE NoMatch)
  ELSE
    CASE fmt[k] = "yyyy" -> TakeDigits(fmt, k, text, i, g, 4)
      [] fmt[k] \in {"MM", "dd", "HH", "hh", "mm"} ->
           Bind(TakeDigits(fmt, k, text, i, g, 2), LAMBDA two :
             IF two # NoMatch THEN two ELSE TakeDigits(fmt, k, text, i, g, 1))
      [] fmt[k] = "a" /\ ParsesMeridiem(fmt, k) ->
           IF /\ i + 1 <= Len(text)
              /\ SubSeq(text, i, i + 1) \in
                   {<<"A", "M">>, <<"P", "M">>, <<"a", "m">>, <<"p", "m">>}
           THEN MatchFrom(fmt, k + 1, text, i + 2,
                          [g EXCEPT !.ampm = SubSeq(text, i, i + 1)])
           ELSE NoMatch
      [] OTHER ->
           \* an unescaped "." of the pattern matches any character
           IF i <= Len(text) /\ (fmt[k] = "." \/ text[i] = fmt[k])
           THEN MatchFrom(fmt, k + 1, text, i + 1, g)
           ELSE NoMatch

\* the hour parseDate takes from the groups m of a match
HourOfMatch(m) ==
  IF m.hour24 # -1 THEN Min(23, Max(0, m.hour24))
  ELSE IF m.hour12 # -1
       THEN (IF m.ampm \in {<<"P", "M">>, <<"p", "m">>}
             THEN (Min(12, Max(1, m.hour12)) % 12) + 12
             ELSE Min(12, Max(1, m.hour12)) % 12)
       ELSE 0

parseDate(value, formatString) ==
  IF value = <<>> THEN NULL
  ELSE
    Bind(MatchFrom(formatString, 1, value, 1, NoGroups), LAMBDA m :
      IF m = NoMatch THEN NULL
      ELSE IF m.year = -1 \/ m.month = -1 \/ m.day = -1 THEN NULL
      ELSE NewDate(IF m.year < 100 THEN 1900 + m.year ELSE m.year, m.month - 1, m.day,
                   HourOfMatch(m),
                   IF m.minute # -1 THEN Min(59, Max(0, m.minute)) ELSE 0))

\* first index >= from at which sep occurs in text; 0 when it does not
IndexOf(text, sep, from) ==
  Bind({i \in from..(Len(text) - Len(sep) + 1) : SubSeq(text, i, i + Len(sep) - 1) = sep},
       LAMBDA hits :
         IF hits = {} THEN 0 ELSE CHOOSE i \in hits : \A j \in hits : i <= j)

RECURSIVE Split(_, _)
\* String.prototype.split for a non-empty separator
Split(text, sep) ==
  Bind(IndexOf(text, sep, 1), LAMBDA at :
    IF at = 0 THEN <<text>>
    ELSE <<SubSeq(text, 1, at - 1)>>
           \o Split(SubSeq(text, at + Len(sep), Len(text)), sep))

RECURSIVE Trim(_)
Trim(text) ==
  IF text = <<>> THEN text
  ELSE IF text[1] = " " THEN Trim(Tail(text))
  ELSE IF text[Len(text)] = " " THEN Trim(SubSeq(text, 1, Len(text) - 1))
  ELSE text


\* --------------------------------------------------------------------- state
VARIABLES
  options,                  \* this.options
  selectedDate,             \* single selection (Date or NULL)
  rangeStart, rangeEnd,     \* range endpoints (Date or NULL)
  hoveringDate,             \* hover preview of the range end
  startHours, startMinutes, \* range time-of-day sub-model, start endpoint
  endHours, endMinutes,     \* range time-of-day sub-model, end endpoint
  timeHours, timeMinutes,   \* single time-of-day sub-model
  focusedDate,              \* keyboard focus
  currentViewMonth,         \* displayed month (a first-of-month Date)
  isOpen,
  scheduleWeeklySelected,   \* set of weekday numbers
  scheduleMonthlySelected,  \* set of day-of-month numbers
  timeRow, timeRangeRow,    \* single / range time controls: "none", "attached"
                            \* (built and in the document) or "detached"
  daysGrid,                 \* whether the days grid element exists
  grid,                     \* what the last _render built the grid's cells from
  inputValue,               \* inputElement.value, the bound field's text
  clockTimer,               \* this.clockTimer: the interval's id, or NULL
  timers,                   \* the ids of the intervals the window has scheduled
  calls,                    \* callback invocations made by the last operation
  changeEvents,             \* 'change' events dispatched by the last operation
  raised,                   \* whether the last operation ended by an exception
  lastOp,                   \* name of the last operation performed
  lastArg,                  \* the day it clicked, or the argument of its setter
  returned                  \* what a module-level function, called by itself,
                            \* returned (NULL while none was called)

vars ==
  <<options, selectedDate, rangeStart, rangeEnd, hoveringDate, startHours,
    startMinutes, endHours, endMinutes, timeHours, timeMinutes, focusedDate,
    currentViewMonth, isOpen, scheduleWeeklySelected, scheduleMonthlySelected,
    timeRow, timeRangeRow, daysGrid, grid, inputValue, clockTimer, timers,
    calls, changeEvents, raised, lastOp, lastArg, returned>>

\* the variables of the picker itself: all but the record of the last operation
picker ==
  <<options, selectedDate, rangeStart, rangeEnd, hoveringDate, startHours,
    startMinutes, endHours, endMinutes, timeHours, timeMinutes, focusedDate,
    currentViewMonth, isOpen, scheduleWeeklySelected, scheduleMonthlySelected,
    timeRow, timeRangeRow, daysGrid, grid, inputValue, clockTimer, timers>>

\* the object as one record: the methods below are functions from the object
\* before the call to the object after it
This ==
  [options |-> options, selectedDate |-> selectedDate, rangeStart |-> rangeStart,
   rangeEnd |-> rangeEnd, hoveringDate |-> hoveringDate, startHours |-> startHours,
   startMinutes |-> startMinutes, endHours |-> endHours, endMinutes |-> endMinutes,
   timeHours |-> timeHours, timeMinutes |-> timeMinutes, focusedDate |-> focusedDate,
   currentViewMonth |-> currentViewMonth, isOpen |-> isOpen,
   scheduleWeeklySelected |-> scheduleWeeklySelected,
   scheduleMonthlySelected |-> scheduleMonthlySelected,
   timeRow |-> timeRow, timeRangeRow |-> timeRangeRow, daysGrid |-> daysGrid,
   grid |-> grid, inputValue |-> inputValue, clockTimer |-> clockTimer,
   timers |-> timers, calls |-> <<>>, changeEvents |-> 0, raised |-> FALSE]

\* the state after an operation named op left the object as t
Becomes(t, op, arg) ==
  /\ options' = t.options
  /\ selectedDate' = t.selectedDate
  /\ rangeStart' = t.rangeStart
  /\ rangeEnd' = t.rangeEnd
  /\ hoveringDate' = t.hoveringDate
  /\ startHours' = t.startHours
  /\ startMinutes' = t.startMinutes
  /\ endHours' = t.endHours
  /\ endMinutes' = t.endMinutes
  /\ timeHours' = t.timeHours
  /\ timeMinutes' = t.timeMinutes
  /\ focusedDate' = t.focusedDate
  /\ currentViewMonth' = t.currentViewMonth
  /\ isOpen' = t.isOpen
  /\ scheduleWeeklySelected' = t.scheduleWeeklySelected
  /\ scheduleMonthlySelected' = t.scheduleMonthlySelected
  /\ timeRow' = t.timeRow
  /\ timeRangeRow' = t.timeRangeRow
  /\ daysGrid' = t.daysGrid
  /\ grid' = t.grid
  /\ inputValue' = t.inputValue
  /\ clockTimer' = t.clockTimer
  /\ timers' = t.timers
  /\ calls' = t.calls
  /\ changeEvents' = t.changeEvents
  /\ raised' = t.raised
  /\ lastOp' = op
  /\ lastArg' = arg
  /\ returned' = returned

\* arguments of the public setters: a Date, a string or null/undefined
DateArg(d) == [date |-> d]
TextArg(s) == [text |-> s]
NullArg == [null |-> TRUE]
\* the [start, end] array or {start, end} object given to setRange
PairArg(a, b) == [pair |-> <<a, b>>]
IsDateArg(a) == "date" \in DOMAIN a
IsTextArg(a) == "text" \in DOMAIN a
IsPairArg(a) == "pair" \in DOMAIN a
\* !x of JavaScript for such an argument
Falsy(a) == ~IsDateArg(a) /\ ~IsPairArg(a) /\ (IsTextArg(a) => a.text = <<>>)
\* a stored Date (or NULL) handed on as an argument
AsArg(d) == IF d = NULL THEN NullArg ELSE DateArg(d)
\* the weekday index or the day of the month given to a toggle
DayArg(n) == [day |-> n]

\* options.onSelect / onSelectRange / onSelectSchedule are registered functions;
\* a call of one is recorded with its value and its context, and it ends by an
\* exception when the registered function is one that throws
Call(t, cb, value, formatted, source) ==
  [t EXCEPT !.calls = Append(@, [cb |-> cb, value |-> value,
                                  formatted |-> formatted, source |-> source]),
            !.raised = @ \/ t.options.onSelectThrows]

\* the call without the try around it
Invoke_Uncaught(t, cb, value, formatted, source) ==
  Call(t, cb, value, formatted, source)

\* try { options.onSelect(value, { formatted, source }) } catch (_) {}: what
\* the call raises ends there
Invoke(t, cb, value, formatted, source) ==
  [Call(t, cb, value, formatted, source) EXCEPT !.raised = t.raised]

\* inputElement.dispatchEvent(new Event('change'))
DispatchChange(t) == [t EXCEPT !.changeEvents = @ + 1]

\* _render: the days grid's cells, their disabled flags and their click handlers
\* are rebuilt from the options and the displayed month of this moment
_render(t) ==
  IF ~t.daysGrid THEN t
  ELSE [t EXCEPT !.grid =
          [kind |-> IF t.options.scheduleMode = "monthly" THEN "monthly"
                    ELSE IF t.options.scheduleMode = "none" THEN "calendar"
                    ELSE "empty",
           range |-> t.options.range,
           minDate |-> t.options.minDate,
           maxDate |-> t.options.maxDate,
           disableDates |-> t.options.disableDates,
           month |-> t.currentViewMonth]]

\* options.disableDates(date): the predicate rejects the days of a configured set
Disabled(t, date) == startOfDay(date) \in t.options.disableDates

\* source || 'api'
SourceOr(source) == IF source = "" THEN "api" ELSE source

\* a parsed Date with its time kept (enableTime) or cut to the start of its day
KeepTime(t, parsed) ==
  IF parsed = NULL THEN NULL
  ELSE IF t.options.enableTime THEN parsed
  ELSE startOfDay(parsed)

_normalizeDate(t, dateOrString) ==
  IF Falsy(dateOrString) \/ IsPairArg(dateOrString) THEN NULL
  ELSE IF IsDateArg(dateOrString) THEN KeepTime(t, dateOrString.date)
  ELSE KeepTime(t, parseDate(dateOrString.text, t.options.format))

\* Ordered with the endpoints left in the order given
Ordered_AsGiven(start, end) == <<start, end>>

\* if (start && end && end < start) swap them
Ordered(start, end) ==
  IF start # NULL /\ end # NULL /\ end < start THEN <<end, start>> ELSE <<start, end>>

\* Allowed without the checks: every endpoint is let through
Allowed_Unchecked(t, d) == d

\* an endpoint out of bounds or disabled becomes null
Allowed(t, d) ==
  IF d # NULL /\ isDateOutOfBounds(d, t.options.minDate, t.options.maxDate) THEN NULL
  ELSE IF d # NULL /\ Disabled(t, d) THEN NULL
  ELSE d

NoRange == [ok |-> FALSE, start |-> NULL, end |-> NULL]

\* the two parsed parts of a range string made the pair _parseRangeString returns
RangeOfParts(t, start, end) ==
  IF start = NULL /\ end = NULL THEN NoRange
  ELSE Bind(Ordered(start, end), LAMBDA p :
         [ok |-> TRUE, start |-> Allowed(t, p[1]), end |-> Allowed(t, p[2])])

_parseRangeString(t, value) ==
  Bind(Split(value, t.options.rangeSeparator), LAMBDA parts :
    IF Len(parts) # 2 THEN NoRange
    ELSE RangeOfParts(t, KeepTime(t, parseDate(Trim(parts[1]), t.options.format)),
                      KeepTime(t, parseDate(Trim(parts[2]), t.options.format))))

\* _formatRangeString with the end left out of the text
_formatRangeString_StartOnly(t, start, end) ==
  IF start # NULL THEN formatDate(start, t.options.format) ELSE <<>>

_formatRangeString(t, start, end) ==
  IF start # NULL /\ end # NULL
  THEN formatDate(start, t.options.format) \o t.options.rangeSeparator
         \o formatDate(end, t.options.format)
  ELSE IF start # NULL /\ end = NULL THEN formatDate(start, t.options.format)
  ELSE <<>>

_updateRangeTimeInputs(t) ==
  IF ~t.options.enableTime \/ ~t.options.range THEN t
  ELSE
    [t EXCEPT
       !.startHours = IF t.rangeStart # NULL THEN getHours(t.rangeStart) ELSE @,
       !.startMinutes =
          clampMinuteToStep(IF t.rangeStart # NULL
                            THEN clampMinuteToStep(getMinutes(t.rangeStart),
                                                   t.options.timeStep)
                            ELSE @,
                            t.options.timeStep),
       !.endHours = IF t.rangeEnd # NULL THEN getHours(t.rangeEnd) ELSE @,
       !.endMinutes =
          clampMinuteToStep(IF t.rangeEnd # NULL
                            THEN clampMinuteToStep(getMinutes(t.rangeEnd),
                                                   t.options.timeStep)
                            ELSE @,
                            t.options.timeStep)]

\* the part of setRange and the constructor that takes the range time sub-model
\* from the stored endpoints
RangeTimeFromEndpoints(t) ==
  [t EXCEPT
     !.startHours = IF t.rangeStart # NULL THEN getHours(t.rangeStart) ELSE @,
     !.startMinutes = IF t.rangeStart # NULL
                      THEN clampMinuteToStep(getMinutes(t.rangeStart), t.options.timeStep)
                      ELSE @,
     !.endHours = IF t.rangeEnd # NULL THEN getHours(t.rangeEnd) ELSE @,
     !.endMinutes = IF t.rangeEnd # NULL
                    THEN clampMinuteToStep(getMinutes(t.rangeEnd), t.options.timeStep)
                    ELSE @]

RangeValue(t) == [start |-> t.rangeStart, end |-> t.rangeEnd]

\* the tail of setRange and all of _syncRangeValue: the field is written unless
\* confirm is on, the callback is invoked, a change event is dispatched unless
\* confirm is on
NotifyRange(t, formatted, source) ==
  IF ~t.options.confirm
  THEN DispatchChange(Invoke([t EXCEPT !.inputValue = formatted], "onSelectRange",
                             RangeValue(t), formatted, SourceOr(source)))
  ELSE Invoke(t, "onSelectRange", RangeValue(t), formatted, SourceOr(source))

\* the endpoints setRange reads from its argument: of a string the parsed range,
\* of an array or an object its two members; of any other object (a Date) the
\* members .start and .end are undefined
RangeEndpoints(t, rangeOrString) ==
  IF IsTextArg(rangeOrString)
  THEN Bind(_parseRangeString(t, rangeOrString.text), LAMBDA rg : <<rg.start, rg.end>>)
  ELSE IF IsPairArg(rangeOrString)
  THEN <<_normalizeDate(t, rangeOrString.pair[1]), _normalizeDate(t, rangeOrString.pair[2])>>
  ELSE <<NULL, NULL>>

\* setRange from the assignment of rangeStart and rangeEnd on
StoreRange(t, start, end, source) ==
  Bind([t EXCEPT !.rangeStart = start, !.rangeEnd = end], LAMBDA t1 :
  Bind(IF t1.options.enableTime
       THEN _updateRangeTimeInputs(RangeTimeFromEndpoints(t1)) ELSE t1, LAMBDA t2 :
  Bind(IF t2.rangeStart # NULL
       THEN [t2 EXCEPT !.currentViewMonth = startOfMonth(t2.rangeStart)]
       ELSE t2, LAMBDA t3 :
    NotifyRange(_render(t3), _formatRangeString(t3, t3.rangeStart, t3.rangeEnd),
                source))))

setRange(t, rangeOrString, source) ==
  IF ~t.options.range THEN t
  ELSE IF Falsy(rangeOrString)
  THEN NotifyRange(
         _render([t EXCEPT !.rangeStart = NULL, !.rangeEnd = NULL, !.hoveringDate = NULL]),
         <<>>, source)
  ELSE Bind(RangeEndpoints(t, rangeOrString), LAMBDA e :
       Bind(Ordered(e[1], e[2]), LAMBDA p :
         StoreRange(t, Allowed(t, p[1]), Allowed(t, p[2]), source)))

_syncRangeValue(t, source) ==
  NotifyRange(t, _formatRangeString(t, t.rangeStart, t.rangeEnd), source)


\* --------------------------------------------------------------- schedules
RECURSIVE SortAscending(_)
\* Array.from(set).sort((a, b) => a - b)
SortAscending(set) ==
  IF set = {} THEN <<>>
  ELSE Bind(CHOOSE x \in set : \A y \in set : x <= y, LAMBDA lo :
         <<lo>> \o SortAscending(set \ {lo}))

\* arrW.map(n => n === 0 ? 7 : n)
SundayAsSeven(arrW) == [i \in 1..Len(arrW) |-> IF arrW[i] = 0 THEN 7 ELSE arrW[i]]

_formatScheduleArray(t) ==
  IF t.options.scheduleMode = "weekly"
  THEN SundayAsSeven(SortAscending(t.scheduleWeeklySelected))
  ELSE IF t.options.scheduleMode = "monthly"
  THEN SortAscending(t.scheduleMonthlySelected)
  ELSE <<>>

\* String(n) for an integer n
IntegerToText(n) == IF n < 0 THEN <<"-">> \o NumberToText(-n) ELSE NumberToText(n)

RECURSIVE JoinNumbers(_)
\* array.join(',')
JoinNumbers(arr) ==
  IF arr = <<>> THEN <<>>
  ELSE IF Len(arr) = 1 THEN IntegerToText(arr[1])
  ELSE IntegerToText(arr[1]) \o <<",">> \o JoinNumbers(Tail(arr))

\* whether text begins with prefix
StartsWith(text, prefix) ==
  Len(text) >= Len(prefix) /\ SubSeq(text, 1, Len(prefix)) = prefix

\* a character of /[,\s]/
IsSeparator(c) == c \in {",", " "}

\* the length of the piece text begins with
PieceLength(text) ==
  CHOOSE n \in 1..Len(text) :
    /\ \A j \in 1..n : ~IsSeparator(text[j])
    /\ (n = Len(text) \/ IsSeparator(text[n + 1]))

RECURSIVE Pieces(_)
\* listStr.split(/[,\s]+/) without its empty pieces
Pieces(text) ==
  IF text = <<>> THEN <<>>
  ELSE IF IsSeparator(text[1]) THEN Pieces(Tail(text))
  ELSE Bind(PieceLength(text), LAMBDA stop :
         <<SubSeq(text, 1, stop)>> \o Pieces(SubSeq(text, stop + 1, Len(text))))

\* whether Number(piece) is finite, for pieces of digits with an optional sign
IsNumberText(piece) ==
  IF piece[1] = "-"
  THEN Len(piece) > 1 /\ AllDigits(piece, 2, Len(piece) - 1)
  ELSE AllDigits(piece, 1, Len(piece))

NumberOf(piece) ==
  IF piece[1] = "-" THEN -TextToNumber(Tail(piece)) ELSE TextToNumber(piece)

\* the prefixes "weekly:", "w:", "monthly:" and "m:" of a schedule string
SchedulePrefixes ==
  {<<"w", "e", "e", "k", "l", "y", ":">>, <<"w", ":">>,
   <<"m", "o", "n", "t", "h", "l", "y", ":">>, <<"m", ":">>}

\* the list part of a schedule string v
ListPart(v) ==
  IF \E pre \in SchedulePrefixes : StartsWith(v, pre)
  THEN SubSeq(v, IndexOf(v, <<":">>, 1) + 1, Len(v))
  ELSE v

\* in weekly mode 7 is stored as 0
StoredDay(t, n) == IF t.options.scheduleMode = "weekly" /\ n = 7 THEN 0 ELSE n

\* _parseScheduleArray of a string: the numbers among its comma- or
\* blank-separated pieces, after a prefix if there is one
_parseScheduleArray(t, value) ==
  Bind(SelectSeq(Pieces(ListPart(Trim(value))), IsNumberText), LAMBDA nums :
    [i \in 1..Len(nums) |-> StoredDay(t, NumberOf(nums[i]))])

\* the set the constructor fills from the parsed array
ParsedSchedule(t, value) ==
  Bind(_parseScheduleArray(t, value), LAMBDA days : {days[i] : i \in 1..Len(days)})

ScheduleValue(t) ==
  [mode |-> t.options.scheduleMode, weekly |-> t.scheduleWeeklySelected,
   monthly |-> t.scheduleMonthlySelected, array |-> _formatScheduleArray(t)]

\* _syncScheduleValue from the joined string on
NotifySchedule(t, formattedString, source) ==
  IF ~t.options.confirm
  THEN DispatchChange(Invoke([t EXCEPT !.inputValue = formattedString],
                             "onSelectSchedule", ScheduleValue(t), formattedString,
                             SourceOr(source)))
  ELSE Invoke(t, "onSelectSchedule", ScheduleValue(t), formattedString, SourceOr(source))

_syncScheduleValue(t, source) ==
  IF t.options.scheduleMode = "none" THEN t
  ELSE NotifySchedule(t, JoinNumbers(_formatScheduleArray(t)), source)

\* Toggled with the day put in and never taken out
Toggled_AddOnly(set, x) == set \cup {x}

\* a set with x put in if it was out and taken out if it was in
Toggled(set, x) == IF x \in set THEN set \ {x} ELSE set \cup {x}

_toggleWeeklyDay(t, dayIndex, fromUser) ==
  IF t.options.scheduleMode # "weekly" THEN t
  ELSE
    _syncScheduleValue(
      [t EXCEPT !.scheduleWeeklySelected =
         IF t.options.scheduleWeeklyMulti THEN Toggled(@, Max(0, Min(6, dayIndex)))
         ELSE {Max(0, Min(6, dayIndex))}],
      IF fromUser THEN "user" ELSE "api")

_toggleMonthlyDay(t, dayOfMonth, fromUser) ==
  IF t.options.scheduleMode # "monthly" THEN t
  ELSE
    _render(_syncScheduleValue(
      [t EXCEPT !.scheduleMonthlySelected =
         IF t.options.scheduleMonthlyMulti
         THEN Toggled(@, Max(1, Min(31, IF dayOfMonth = 0 THEN 1 ELSE dayOfMonth)))
         ELSE {Max(1, Min(31, IF dayOfMonth = 0 THEN 1 ELSE dayOfMonth))}],
      IF fromUser THEN "user" ELSE "api"))

\* ---------------------------------------------------- single selection, time
_initTimeFromDate(t, d) ==
  IF ~isValidDate(d) THEN t
  ELSE [t EXCEPT !.timeHours = getHours(d),
                 !.timeMinutes = clampMinuteToStep(getMinutes(d), t.options.timeStep)]

_updateTimeInputs(t) ==
  IF ~t.options.enableTime \/ t.timeRow = "none" THEN t
  ELSE [t EXCEPT !.timeMinutes =
          clampMinuteToStep(@, IF t.options.timeStep > 0 THEN t.options.timeStep ELSE 5)]

\* NotifySelection with the callback left out
NotifySelection_Silent(t, formatted, source) ==
  IF ~t.options.confirm
  THEN DispatchChange([t EXCEPT !.inputValue = formatted])
  ELSE t

\* NotifySelection with the field written whether or not confirm is on
NotifySelection_Eager(t, formatted, source) ==
  DispatchChange([Invoke(t, "onSelect", t.selectedDate, formatted, SourceOr(source))
                    EXCEPT !.inputValue = formatted])

\* NotifySelection with the callback held back while confirm is on
NotifySelection_Deferred(t, formatted, source) ==
  IF ~t.options.confirm
  THEN DispatchChange([Invoke(t, "onSelect", t.selectedDate, formatted, SourceOr(source))
                         EXCEPT !.inputValue = formatted])
  ELSE t

\* _applySelection from the formatted string on: the callback is invoked, and
\* unless confirm is on the field is written and a change event dispatched
NotifySelection(t, formatted, source) ==
  IF ~t.options.confirm
  THEN DispatchChange([Invoke(t, "onSelect", t.selectedDate, formatted, SourceOr(source))
                         EXCEPT !.inputValue = formatted])
  ELSE Invoke(t, "onSelect", t.selectedDate, formatted, SourceOr(source))

_applySelection(t, dateTime, source) ==
  NotifySelection(
    _render([t EXCEPT !.selectedDate = dateTime, !.focusedDate = startOfDay(dateTime)]),
    formatDate(dateTime, t.options.format), source)

\* new Date(d.getFullYear(), d.getMonth(), d.getDate(), hours, minutes)
AtTime(d, hours, minutes) ==
  NewDate(getFullYear(d), getMonth(d), getDate(d), hours, minutes)

_selectDate(t, date, source) ==
  _applySelection(t,
                  IF t.options.enableTime THEN AtTime(date, t.timeHours, t.timeMinutes)
                  ELSE startOfDay(date),
                  source)

\* _setTime after the time sub-model is set
ApplyTime(t, fromUser) ==
  IF t.selectedDate # NULL
  THEN _applySelection(t, AtTime(t.selectedDate, t.timeHours, t.timeMinutes),
                       IF fromUser THEN "user" ELSE "api")
  ELSE t

_setTime(t, hour, minute, fromUser) ==
  ApplyTime(
    _updateTimeInputs(
      [t EXCEPT !.timeHours = Max(0, Min(23, hour)),
                !.timeMinutes = clampMinuteToStep(Max(0, Min(59, minute)),
                                                  t.options.timeStep)]),
    fromUser)

\* setInterval gives an id that no scheduled interval has and that is held
\* nowhere: the least such
FreshTimer(t) ==
  CHOOSE id \in 1..(Cardinality(t.timers) + 2) :
    /\ id \notin t.timers /\ id # t.clockTimer
    /\ \A lower \in 1..(id - 1) : lower \in t.timers \/ lower = t.clockTimer

\* clearInterval(id)
clearInterval(t, id) == [t EXCEPT !.timers = @ \ {id}]

_startClockTimer(t) ==
  IF ~t.options.showAnalogClock THEN t
  ELSE Bind(IF t.clockTimer # NULL THEN clearInterval(t, t.clockTimer) ELSE t,
            LAMBDA t1 : [t1 EXCEPT !.clockTimer = FreshTimer(t1),
                                   !.timers = @ \cup {FreshTimer(t1)}])

_stopClockTimer(t) ==
  IF t.clockTimer # NULL
  THEN [clearInterval(t, t.clockTimer) EXCEPT !.clockTimer = NULL]
  ELSE t

open(t) ==
  IF t.isOpen /\ ~t.options.inline THEN t
  ELSE IF t.options.inline THEN [t EXCEPT !.isOpen = TRUE]
  ELSE Bind([_render(t) EXCEPT !.isOpen = TRUE], LAMBDA t1 :
         IF t1.options.showAnalogClock THEN _startClockTimer(t1) ELSE t1)

\* close with the clock's interval left running
close_TimerKept(t) ==
  IF ~t.isOpen THEN t ELSE [t EXCEPT !.isOpen = FALSE]

close(t) ==
  IF ~t.isOpen THEN t
  ELSE IF t.options.inline THEN [t EXCEPT !.isOpen = FALSE]
  ELSE _stopClockTimer([t EXCEPT !.isOpen = FALSE])

toggle(t) == IF t.isOpen THEN close(t) ELSE open(t)

\* destroy: the listeners of the field, removed with it, are no state here
destroy(t) == _stopClockTimer(close(t))

\* ClearDate with the callback held back while confirm is on
ClearDate_Deferred(t, source) ==
  IF ~t.options.confirm
  THEN DispatchChange(Invoke(_render([t EXCEPT !.selectedDate = NULL,
                                               !.inputValue = <<>>]),
                             "onSelect", NULL, <<>>, SourceOr(source)))
  ELSE _render([t EXCEPT !.selectedDate = NULL])

\* setDate(null) of a single picker
ClearDate(t, source) ==
  IF ~t.options.confirm
  THEN DispatchChange(Invoke(_render([t EXCEPT !.selectedDate = NULL,
                                               !.inputValue = <<>>]),
                             "onSelect", NULL, <<>>, SourceOr(source)))
  ELSE Invoke(_render([t EXCEPT !.selectedDate = NULL]), "onSelect", NULL, <<>>,
              SourceOr(source))

\* StoreDate without the checks of the bounds and of the disabled days
StoreDate_Unchecked(t, parsed, source) ==
  IF parsed = NULL THEN t
  ELSE _selectDate(
         IF t.options.enableTime
         THEN _initTimeFromDate([t EXCEPT !.currentViewMonth = startOfMonth(parsed)],
                                parsed)
         ELSE [t EXCEPT !.currentViewMonth = startOfMonth(parsed)],
         parsed, SourceOr(source))

\* setDate of a single picker from the normalized date on
StoreDate(t, parsed, source) ==
  IF parsed = NULL THEN t
  ELSE IF isDateOutOfBounds(parsed, t.options.minDate, t.options.maxDate) THEN t
  ELSE IF Disabled(t, parsed) THEN t
  ELSE _selectDate(
         IF t.options.enableTime
         THEN _initTimeFromDate([t EXCEPT !.currentViewMonth = startOfMonth(parsed)],
                                parsed)
         ELSE [t EXCEPT !.currentViewMonth = startOfMonth(parsed)],
         parsed, SourceOr(source))

setDate(t, dateOrString, source) ==
  IF t.options.range
  THEN setRange(t,
                IF Falsy(dateOrString) THEN NullArg
                ELSE PairArg(dateOrString, AsArg(t.rangeEnd)),
                SourceOr(source))
  ELSE IF Falsy(dateOrString) THEN ClearDate(t, source)
  ELSE StoreDate(t, _normalizeDate(t, dateOrString), source)


\* ------------------------------------------------------ commit, today, clear
\* what _commitValue writes to the field
CommittedText(t) ==
  IF t.options.scheduleMode # "none" THEN JoinNumbers(_formatScheduleArray(t))
  ELSE IF t.options.range THEN _formatRangeString(t, t.rangeStart, t.rangeEnd)
  ELSE IF t.selectedDate # NULL THEN formatDate(t.selectedDate, t.options.format)
  ELSE <<>>

\* _commitValue from the formatted string on
Commit(t, formatted) ==
  Bind(DispatchChange(
         IF t.options.scheduleMode # "none"
         THEN Invoke([t EXCEPT !.inputValue = formatted], "onSelectSchedule",
                     ScheduleValue(t), formatted, "confirm")
         ELSE IF t.options.range
         THEN Invoke([t EXCEPT !.inputValue = formatted], "onSelectRange",
                     RangeValue(t), formatted, "confirm")
         ELSE Invoke([t EXCEPT !.inputValue = formatted], "onSelect",
                     t.selectedDate, formatted, "confirm")),
       LAMBDA t1 : IF ~t1.options.inline THEN close(t1) ELSE t1)

\* _commitValue without the return of a picker that has no confirm
_commitValue_Always(t) == Commit(t, CommittedText(t))

_commitValue(t) ==
  IF ~t.options.confirm THEN t ELSE Commit(t, CommittedText(t))

\* if (!confirm && autoClose && !inline) this.close()
CloseUnlessConfirm(t) ==
  IF ~t.options.confirm /\ t.options.autoClose /\ ~t.options.inline THEN close(t) ELSE t

\* the Today button of a range picker: the state and the argument setRange is
\* called with, and whether the popover may close after it; todayAt is today at
\* the clock's hour and clamped minute
TodayRangeCall(t, today, todayAt) ==
  IF (t.rangeStart = NULL /\ t.rangeEnd = NULL)
     \/ (t.rangeStart # NULL /\ t.rangeEnd = NULL /\ today < t.rangeStart)
  THEN [before |-> IF t.options.enableTime
                   THEN [t EXCEPT !.startHours = getHours(todayAt),
                                  !.startMinutes = getMinutes(todayAt)]
                   ELSE t,
        arg    |-> IF t.options.enableTime THEN DateArg(todayAt)
                   ELSE PairArg(DateArg(today), NullArg),
        close  |-> FALSE]
  ELSE IF t.rangeStart # NULL /\ t.rangeEnd = NULL
  THEN [before |-> IF t.options.enableTime
                   THEN [t EXCEPT !.endHours = getHours(todayAt),
                                  !.endMinutes = getMinutes(todayAt)]
                   ELSE t,
        arg    |-> PairArg(DateArg(t.rangeStart),
                           DateArg(IF t.options.enableTime THEN todayAt ELSE today)),
        close  |-> TRUE]
  ELSE [before |-> IF t.options.enableTime
                   THEN [t EXCEPT !.startHours = getHours(todayAt),
                                  !.endHours = getHours(todayAt),
                                  !.startMinutes = getMinutes(todayAt),
                                  !.endMinutes = getMinutes(todayAt)]
                   ELSE t,
        arg    |-> IF t.options.enableTime
                   THEN PairArg(DateArg(todayAt), DateArg(todayAt))
                   ELSE PairArg(DateArg(today), DateArg(today)),
        close  |-> TRUE]

TodayRange(t, today, todayAt) ==
  Bind(TodayRangeCall(t, today, todayAt), LAMBDA c :
  Bind(setRange(c.before, c.arg, "user"), LAMBDA t1 :
    IF c.close THEN CloseUnlessConfirm(t1) ELSE t1))

\* the Today button of a single picker
TodaySingle(t, today, todayAt) ==
  Bind(_selectDate(IF t.options.enableTime
                   THEN _updateTimeInputs([t EXCEPT !.timeHours = getHours(todayAt),
                                                    !.timeMinutes = getMinutes(todayAt)])
                   ELSE t,
                   today, "user"),
       LAMBDA t1 : IF t1.options.autoClose /\ ~t1.options.inline THEN close(t1) ELSE t1)

\* _selectToday past the schedule modes and the checks of today
TodayPick(t, today, todayAt) ==
  IF t.options.range THEN TodayRange(t, today, todayAt) ELSE TodaySingle(t, today, todayAt)

\* now is the reading of the clock, new Date()
_selectToday(t, now) ==
  Bind(startOfDay(now), LAMBDA today :
    IF t.options.scheduleMode = "weekly" THEN _toggleWeeklyDay(t, getDay(today), TRUE)
    ELSE IF t.options.scheduleMode = "monthly"
    THEN _toggleMonthlyDay(t, getDate(today), TRUE)
    ELSE IF isDateOutOfBounds(today, t.options.minDate, t.options.maxDate) THEN t
    ELSE IF Disabled(t, today) THEN t
    ELSE TodayPick([t EXCEPT !.currentViewMonth = startOfMonth(today)], today,
                   AtTime(today, getHours(now),
                          clampMinuteToStep(getMinutes(now), t.options.timeStep))))

\* _clearSelection before its closing
ClearByMode(t) ==
  IF t.options.scheduleMode = "weekly"
  THEN _syncScheduleValue([t EXCEPT !.scheduleWeeklySelected = {}], "user")
  ELSE IF t.options.scheduleMode = "monthly"
  THEN _render(_syncScheduleValue([t EXCEPT !.scheduleMonthlySelected = {}], "user"))
  ELSE IF t.options.range THEN setRange(t, NullArg, "user")
  ELSE setDate(t, NullArg, "user")

_clearSelection(t) ==
  Bind(ClearByMode(t), LAMBDA t1 :
    IF ~t1.options.confirm /\ ~t1.options.inline /\ t1.options.autoClose
    THEN close(t1) ELSE t1)

\* ClickedRange with the end assigned as clicked, never exchanged with the start
ClickedRange_NoSwap(t, dayDate) ==
  IF t.rangeStart = NULL \/ (t.rangeStart # NULL /\ t.rangeEnd # NULL)
  THEN [t EXCEPT
          !.rangeStart = IF t.options.enableTime
                         THEN AtTime(dayDate, t.startHours, t.startMinutes)
                         ELSE startOfDay(dayDate),
          !.rangeEnd = NULL,
          !.hoveringDate = NULL]
  ELSE [t EXCEPT
          !.rangeEnd = IF t.options.enableTime
                       THEN AtTime(dayDate, t.endHours, t.endMinutes)
                       ELSE startOfDay(dayDate),
          !.hoveringDate = NULL]

\* ClickedRange with a click on the day of the start taken as a new start
ClickedRange_Restart(t, dayDate) ==
  IF \/ t.rangeStart = NULL
     \/ (t.rangeStart # NULL /\ t.rangeEnd # NULL)
     \/ areSameCalendarDate(t.rangeStart, dayDate)
  THEN [t EXCEPT
          !.rangeStart = IF t.options.enableTime
                         THEN AtTime(dayDate, t.startHours, t.startMinutes)
                         ELSE startOfDay(dayDate),
          !.rangeEnd = NULL,
          !.hoveringDate = NULL]
  ELSE Bind(IF t.options.enableTime THEN AtTime(dayDate, t.endHours, t.endMinutes)
            ELSE startOfDay(dayDate),
            LAMBDA end :
              IF end < t.rangeStart
              THEN [t EXCEPT !.rangeEnd = t.rangeStart, !.rangeStart = end,
                             !.hoveringDate = NULL]
              ELSE [t EXCEPT !.rangeEnd = end, !.hoveringDate = NULL])

\* ------------------------------------------------------------- range clicks
\* the endpoints after a click on dayDate: clicked is dayDate with the time of
\* the endpoint it is to become
ClickedRange(t, dayDate) ==
  IF t.rangeStart = NULL \/ (t.rangeStart # NULL /\ t.rangeEnd # NULL)
  THEN [t EXCEPT
          !.rangeStart = IF t.options.enableTime
                         THEN AtTime(dayDate, t.startHours, t.startMinutes)
                         ELSE startOfDay(dayDate),
          !.rangeEnd = NULL,
          !.hoveringDate = NULL]
  ELSE Bind(IF t.options.enableTime THEN AtTime(dayDate, t.endHours, t.endMinutes)
            ELSE startOfDay(dayDate),
            LAMBDA end :
              IF end < t.rangeStart
              THEN [t EXCEPT !.rangeEnd = t.rangeStart, !.rangeStart = end,
                             !.hoveringDate = NULL]
              ELSE [t EXCEPT !.rangeEnd = end, !.hoveringDate = NULL])

_handleRangeClick(t, dayDate) ==
  IF ~t.options.range THEN t
  ELSE Bind(_render(_updateRangeTimeInputs(_syncRangeValue(ClickedRange(t, dayDate),
                                                           "user"))),
            LAMBDA t1 :
              \* the popover may close when the click gave the range its end
              IF t.rangeStart # NULL /\ t.rangeEnd = NULL THEN CloseUnlessConfirm(t1)
              ELSE t1)


\* ------------------------------------------------------------ updateOptions
Has(partial, key) == key \in DOMAIN partial

\* an exception leaves the operation at this point
Throw(t) == [t EXCEPT !.raised = TRUE]

\* _buildTimeControls; the caller puts the new row into the document
_buildTimeControls(t) ==
  _updateTimeInputs(
    IF t.selectedDate # NULL
    THEN _initTimeFromDate([t EXCEPT !.timeRow = "detached"], t.selectedDate)
    ELSE [t EXCEPT !.timeRow = "detached"])

\* _buildRangeTimeControls; the caller puts the new row into the document
_buildRangeTimeControls(t) ==
  _updateRangeTimeInputs([t EXCEPT !.timeRangeRow = "detached"])

\* calendarElement.insertBefore(row, footer): the footer is a child of the main
\* container, not of the calendar element, so the call raises NotFoundError
InsertBeforeFooter(t) == Throw(t)

\* the scheduleMode key, given and different from the mode in force
SwitchScheduleMode(t, nextMode) ==
  _syncScheduleValue(
    IF nextMode # "none"
    THEN [t EXCEPT !.options.scheduleMode = nextMode, !.options.enableTime = FALSE,
                   !.options.range = FALSE, !.timeRow = "none", !.timeRangeRow = "none"]
    ELSE [t EXCEPT !.options.scheduleMode = nextMode],
    "api")

UpdateScheduleOptions(t, partial) ==
  Bind([t EXCEPT
          !.options.scheduleWeeklyMulti =
             IF Has(partial, "scheduleWeeklyMulti") THEN partial.scheduleWeeklyMulti ELSE @,
          !.options.scheduleMonthlyMulti =
             IF Has(partial, "scheduleMonthlyMulti") THEN partial.scheduleMonthlyMulti
             ELSE @],
       LAMBDA t1 :
         IF Has(partial, "scheduleMode") /\ partial.scheduleMode # t1.options.scheduleMode
         THEN SwitchScheduleMode(t1, partial.scheduleMode)
         ELSE t1)

\* a value given for firstDayOfWeek: an integer, or a value that is no integer
\* (a number with a fraction, or a text that is no number)
IntArg(n) == [int |-> n]
FractionArg == [fraction |-> <<"2", ".", "5">>]
\* constructor: Number.isInteger(firstDayOfWeek) ? firstDayOfWeek : 0
FirstDayOfWeekGiven(arg) == IF Has(arg, "int") THEN arg.int ELSE 0
\* updateOptions: Number(partial.firstDayOfWeek) || 0, of an integer or of a
\* text that is no number
FirstDayOfWeekUpdated(arg) == IF Has(arg, "int") THEN arg.int ELSE 0

\* the keys format, firstDayOfWeek, minDate, maxDate, disableDates, autoClose
\* and inline
UpdatePlainOptions(t, partial) ==
  Bind(IF Has(partial, "format")
       THEN [t EXCEPT !.options.format =
               IF partial.format = <<>> THEN DEFAULT_FORMAT ELSE partial.format]
       ELSE t, LAMBDA t1 :
  Bind(IF Has(partial, "minDate")
       THEN [t1 EXCEPT !.options.minDate = _normalizeDate(t1, partial.minDate)]
       ELSE t1, LAMBDA t2 :
  Bind(IF Has(partial, "maxDate")
       THEN [t2 EXCEPT !.options.maxDate = _normalizeDate(t2, partial.maxDate)]
       ELSE t2, LAMBDA t3 :
    [t3 EXCEPT
       !.options.disableDates =
          IF Has(partial, "disableDates") THEN partial.disableDates ELSE @,
       !.options.firstDayOfWeek =
          IF Has(partial, "firstDayOfWeek")
          THEN FirstDayOfWeekUpdated(partial.firstDayOfWeek) ELSE @,
       !.options.autoClose = IF Has(partial, "autoClose") THEN partial.autoClose ELSE @,
       !.options.inline = IF Has(partial, "inline") THEN partial.inline ELSE @])))

\* the enableTime key turned on: confirm is forced, the controls of the mode
\* are built if there are none and put before the footer
EnableTime(t) ==
  IF t.options.range
  THEN (IF t.timeRangeRow = "none"
        THEN InsertBeforeFooter(_buildRangeTimeControls([t EXCEPT !.timeRow = "none"]))
        ELSE [t EXCEPT !.timeRow = "none"])
  ELSE (IF t.timeRow = "none" THEN InsertBeforeFooter(_buildTimeControls(t)) ELSE t)

UpdateEnableTime(t, partial) ==
  IF ~Has(partial, "enableTime") THEN t
  ELSE IF partial.enableTime /\ t.options.scheduleMode = "none" /\ ~t.options.enableTime
  THEN EnableTime([t EXCEPT !.options.enableTime = TRUE, !.options.confirm = TRUE])
  ELSE IF ~(partial.enableTime /\ t.options.scheduleMode = "none") /\ t.options.enableTime
  THEN [t EXCEPT !.options.enableTime = FALSE, !.timeRow = "none", !.timeRangeRow = "none"]
  ELSE t

\* the time inputs redrawn after the step changed
RedrawTimeInputs(t) ==
  IF t.options.enableTime /\ t.timeRow # "none" THEN _updateTimeInputs(t)
  ELSE IF t.options.enableTime /\ t.timeRangeRow # "none" THEN _updateRangeTimeInputs(t)
  ELSE t

UpdateTimeStep(t, partial) ==
  IF ~Has(partial, "timeStep") THEN t
  ELSE RedrawTimeInputs([t EXCEPT !.options.timeStep =
                            IF partial.timeStep > 0 THEN partial.timeStep ELSE @])

\* the range found in the field when the picker is switched to range mode
RangeOfField(t) ==
  IF Trim(t.inputValue) # <<>> THEN _parseRangeString(t, Trim(t.inputValue)) ELSE NoRange

\* the switch to range mode
SwitchToRange(t) ==
  Bind(IF t.options.enableTime /\ t.timeRangeRow = "none"
       THEN InsertBeforeFooter(_buildRangeTimeControls(
              [t EXCEPT !.options.range = TRUE, !.timeRow = "none"]))
       ELSE [t EXCEPT !.options.range = TRUE, !.timeRow = "none"], LAMBDA t1 :
    IF t1.raised THEN t1
    ELSE Bind(RangeOfField(t1), LAMBDA rg :
           [t1 EXCEPT !.selectedDate = NULL, !.rangeStart = rg.start,
                      !.rangeEnd = rg.end]))

\* the switch to single mode: the range's start is carried over by setDate
SwitchToSingle(t) ==
  Bind([t EXCEPT !.options.range = FALSE, !.rangeStart = NULL, !.rangeEnd = NULL,
                 !.hoveringDate = NULL, !.timeRangeRow = "none"], LAMBDA t1 :
  Bind(IF t1.options.enableTime /\ t1.timeRow = "none"
       THEN InsertBeforeFooter(_buildTimeControls(t1)) ELSE t1, LAMBDA t2 :
    IF t2.raised THEN t2 ELSE setDate(t2, AsArg(t.rangeStart), "api")))

\* UpdateRange with the range key taken as given in a schedule mode too
UpdateRange_InAnyMode(t, partial) ==
  IF ~Has(partial, "range") THEN t
  ELSE IF partial.range = t.options.range THEN t
  ELSE IF partial.range THEN SwitchToRange(t)
  ELSE SwitchToSingle(t)

UpdateRange(t, partial) ==
  IF ~Has(partial, "range") THEN t
  ELSE IF (partial.range /\ t.options.scheduleMode = "none") = t.options.range THEN t
  ELSE IF partial.range THEN SwitchToRange(t)
  ELSE SwitchToSingle(t)

\* the keys rangeSeparator and confirm
UpdateConfirm(t, partial) ==
  [t EXCEPT
     !.options.rangeSeparator =
        IF Has(partial, "rangeSeparator") /\ partial.rangeSeparator # <<>>
        THEN partial.rangeSeparator ELSE @,
     !.options.confirm = IF Has(partial, "confirm") THEN partial.confirm ELSE @]

\* the showAnalogClock key: the clock's interval is started when the clock is
\* turned on in a picker that is open or inline, and stopped when it is turned
\* off
UpdateShowAnalogClock(t, partial) ==
  IF ~Has(partial, "showAnalogClock") THEN t
  ELSE IF partial.showAnalogClock /\ ~t.options.showAnalogClock
  THEN Bind([t EXCEPT !.options.showAnalogClock = TRUE], LAMBDA t1 :
         IF t1.isOpen \/ t1.options.inline THEN _startClockTimer(t1) ELSE t1)
  ELSE IF ~partial.showAnalogClock /\ t.options.showAnalogClock
  THEN _stopClockTimer([t EXCEPT !.options.showAnalogClock = FALSE])
  ELSE t

\* partial is a record holding the keys given; the keys are handled in the
\* code's order and an exception ends the call where it is raised
updateOptions(t, partial) ==
  Bind(UpdateEnableTime(UpdatePlainOptions(UpdateScheduleOptions(t, partial), partial),
                        partial), LAMBDA t1 :
    IF t1.raised THEN t1
    ELSE Bind(UpdateRange(UpdateShowAnalogClock(UpdateTimeStep(t1, partial), partial),
                          partial), LAMBDA t2 :
           IF t2.raised THEN t2 ELSE _render(UpdateConfirm(t2, partial))))

\* the days of a payload's array stored in the set of the mode in force
StoreSchedule(t, payload) ==
  IF t.options.scheduleMode = "weekly" /\ Has(payload, "weekly")
  THEN [t EXCEPT !.scheduleWeeklySelected =
          {payload.weekly[i] : i \in 1..Len(payload.weekly)}]
  ELSE IF t.options.scheduleMode = "monthly" /\ Has(payload, "monthly")
  THEN [t EXCEPT !.scheduleMonthlySelected =
          {payload.monthly[i] : i \in 1..Len(payload.monthly)}]
  ELSE t

setSchedule(t, payload, source) ==
  IF Has(payload, "null") THEN t
  ELSE _render(_syncScheduleValue(
         StoreSchedule(IF Has(payload, "mode") /\ payload.mode # t.options.scheduleMode
                       THEN updateOptions(t, [scheduleMode |-> payload.mode])
                       ELSE t,
                       payload),
         SourceOr(source)))


\* -------------------------------------------------------------- constructor
\* the options a caller leaves out; onSelectThrows tells of the functions
\* registered as onSelect, onSelectRange and onSelectSchedule whether they throw
DefaultOptions ==
  [format |-> DEFAULT_FORMAT, firstDayOfWeek |-> 0, minDate |-> NULL, maxDate |-> NULL,
   disableDates |-> {}, autoClose |-> TRUE, inline |-> FALSE, enableTime |-> FALSE,
   timeStep |-> 5, range |-> FALSE, rangeSeparator |-> <<" ", "-", " ">>,
   confirm |-> FALSE, scheduleMode |-> "none", scheduleWeeklyMulti |-> TRUE,
   scheduleMonthlyMulti |-> TRUE, onSelectThrows |-> FALSE,
   showAnalogClock |-> FALSE]

\* the options as the constructor stores them: the bounds cut to their day, a
\* schedule mode without time and range, time with confirm
NormalizedOptions(o) ==
  [o EXCEPT
     !.minDate = IF @ = NULL THEN NULL ELSE startOfDay(@),
     !.maxDate = IF @ = NULL THEN NULL ELSE startOfDay(@),
     !.enableTime = @ /\ o.scheduleMode = "none",
     !.range = @ /\ o.scheduleMode = "none",
     !.confirm = @ \/ (o.enableTime /\ o.scheduleMode = "none")]

\* the object before the field's value is read
Fresh(o, existingValue, now) ==
  [options |-> o, selectedDate |-> NULL, rangeStart |-> NULL,
   rangeEnd |-> NULL, hoveringDate |-> NULL, startHours |-> 0,
   startMinutes |-> 0, endHours |-> 0, endMinutes |-> 0, timeHours |-> 0,
   timeMinutes |-> 0, focusedDate |-> NULL,
   currentViewMonth |-> startOfMonth(now), isOpen |-> FALSE,
   scheduleWeeklySelected |-> {}, scheduleMonthlySelected |-> {},
   timeRow |-> "none", timeRangeRow |-> "none", daysGrid |-> FALSE,
   grid |-> [kind |-> "empty", range |-> FALSE, minDate |-> NULL,
             maxDate |-> NULL, disableDates |-> {}, month |-> NULL],
   inputValue |-> existingValue, clockTimer |-> NULL, timers |-> {},
   calls |-> <<>>, changeEvents |-> 0, raised |-> FALSE]

\* the range found in the field at construction
InitialRange(t, rg) ==
  IF ~rg.ok THEN t
  ELSE IF t.options.enableTime
  THEN RangeTimeFromEndpoints([t EXCEPT !.rangeStart = rg.start, !.rangeEnd = rg.end])
  ELSE [t EXCEPT !.rangeStart = rg.start, !.rangeEnd = rg.end]

\* the date found in the field at construction
InitialDate(t, parsed) ==
  IF parsed = NULL THEN t
  ELSE IF t.options.enableTime
  THEN _initTimeFromDate([t EXCEPT !.selectedDate = parsed], parsed)
  ELSE [t EXCEPT !.selectedDate = startOfDay(parsed)]

\* the value found in the field at construction
InitialValue(t, existing) ==
  IF existing = <<>> THEN t
  ELSE IF t.options.scheduleMode = "weekly"
  THEN [t EXCEPT !.scheduleWeeklySelected = ParsedSchedule(t, existing)]
  ELSE IF t.options.scheduleMode = "monthly"
  THEN [t EXCEPT !.scheduleMonthlySelected = ParsedSchedule(t, existing)]
  ELSE IF t.options.range THEN InitialRange(t, _parseRangeString(t, existing))
  ELSE InitialDate(t, parseDate(existing, t.options.format))

\* _build: the grid, and the time controls of the mode put before the footer
_build(t) ==
  Bind([t EXCEPT !.daysGrid = (t.options.scheduleMode # "weekly")], LAMBDA t1 :
    Bind(IF t1.options.enableTime
         THEN (IF t1.options.range
               THEN [_buildRangeTimeControls(t1) EXCEPT !.timeRangeRow = "attached"]
               ELSE [_buildTimeControls(t1) EXCEPT !.timeRow = "attached"])
         ELSE t1, LAMBDA t2 :
      IF t2.options.inline /\ t2.options.showAnalogClock
      THEN _startClockTimer(t2) ELSE t2))

\* new DatePicker(input, initialOptions), the input holding existingValue, at
\* the time now; minDate and maxDate are given as Dates
Constructor(initialOptions, existingValue, now) ==
  Bind(_render(_build(InitialValue(Fresh(NormalizedOptions(initialOptions),
                                         existingValue, now),
                                   Trim(existingValue)))),
       LAMBDA t : IF t.options.inline THEN open(t) ELSE t)


\* ------------------------------------------------------------------- inputs
\* the calendar days clicks and setters are tried with: 2024-03-10, 2024-03-15, ...
Days == {(BaseDay + DayGap * k) * MinutesPerDay : k \in 0..(MaxDays - 1)}
Day(k) == (BaseDay + DayGap * (k - 1)) * MinutesPerDay
\* the hours the hour selects are set to
Hours == {9 * k : k \in 1..MaxHours}
\* the minute options tried, among those the minute select offers for a step
MinuteOptions(step) == {m \in {30} : step > 0 /\ m % step = 0}
\* the reading of the clock: 2024-03-15 09:32
Now == Day(2) + 9 * 60 + 32

TimeFormat == <<"yyyy", "-", "MM", "-", "dd", " ", "HH", ":", "mm">>
Garbage == <<"x">>

\* Date arguments: each day at midnight, and the first at 09:30
DateInputs == Days \cup {Day(1) + 9 * 60 + 30}
\* string arguments: each day in the default format, and a text that is no date
TextInputs == {formatDate(d, DEFAULT_FORMAT) : d \in Days} \cup {Garbage}
SetDateInputs ==
  {NullArg} \cup {DateArg(d) : d \in DateInputs} \cup {TextArg(x) : x \in TextInputs}
SetRangeInputs ==
  {NullArg}
    \cup {PairArg(a, b) : a, b \in {NullArg} \cup {DateArg(d) : d \in Days}}
    \cup {PairArg(TextArg(Garbage), DateArg(Day(1))),
          PairArg(DateArg(Day(1)), TextArg(Garbage))}
    \cup {TextArg(formatDate(Day(1), DEFAULT_FORMAT) \o <<" ", "-", " ">>
                   \o formatDate(Day(2), DEFAULT_FORMAT)),
          TextArg(formatDate(Day(2), DEFAULT_FORMAT) \o <<" ", "-", " ">>
                   \o formatDate(Day(1), DEFAULT_FORMAT)),
          TextArg(formatDate(Day(1), DEFAULT_FORMAT)),
          TextArg(Garbage \o <<" ", "-", " ">> \o formatDate(Day(1), DEFAULT_FORMAT))}

\* weekday numbers (0 = Sunday) and days of the month the toggles are tried with
WeekdayInputs == {0, 1, 5}
MonthdayInputs == {10, 20}
\* the payloads of setSchedule: the days of the mode, of the other mode, with
\* the mode named, and null
SetScheduleInputs ==
  {[weekly |-> <<5, 0>>], [monthly |-> <<20, 10>>], [mode |-> "weekly", weekly |-> <<0>>],
   [mode |-> "monthly", monthly |-> <<10>>], [null |-> TRUE]}

\* minDate, maxDate and the disabled days tried: none, the first day below the
\* minimum, the second day above the maximum, the second day disabled
BoundsInputs ==
  {<<NULL, NULL, {}>>, <<Day(2), NULL, {}>>, <<NULL, Day(1), {}>>, <<NULL, NULL, {Day(2)}>>}

\* the options the constructor is given: single or range, with or without time
\* and confirm, under each of the bounds; or a schedule mode
InitialOptions ==
  {[DefaultOptions EXCEPT !.range = r, !.enableTime = e, !.confirm = c,
                          !.minDate = b[1], !.maxDate = b[2], !.disableDates = b[3],
                          !.format = IF e THEN TimeFormat ELSE DEFAULT_FORMAT] :
     r \in BOOLEAN, e \in BOOLEAN, c \in BOOLEAN, b \in BoundsInputs}
    \cup {[DefaultOptions EXCEPT !.scheduleMode = m, !.confirm = c,
                                !.scheduleWeeklyMulti = multi,
                                !.scheduleMonthlyMulti = multi] :
           m \in {"weekly", "monthly"}, c \in BOOLEAN, multi \in BOOLEAN}
\* the field's text at construction: empty or a date, and for a schedule
\* picker empty or two days of its mode
InitialValues(o) ==
  IF o.scheduleMode = "weekly" THEN {<<>>, <<"5", ",", "7">>}
  ELSE IF o.scheduleMode = "monthly" THEN {<<>>, <<"1", "0", ",", "2", "0">>}
  ELSE {<<>>, formatDate(Day(1), DEFAULT_FORMAT)}

\* the partial options updateOptions is tried with
ConfirmUpdates == {[confirm |-> c] : c \in BOOLEAN}
EnableTimeUpdates == {[enableTime |-> e] : e \in BOOLEAN}
BoundsUpdates ==
  {[minDate |-> AsArg(b[1]), maxDate |-> AsArg(b[2]), disableDates |-> b[3]] :
     b \in BoundsInputs}
ScheduleModeUpdates == {[scheduleMode |-> m] : m \in {"weekly", "monthly"}}
MultiUpdates == {[scheduleWeeklyMulti |-> FALSE, scheduleMonthlyMulti |-> FALSE]}

\* whether the calendar is on screen
Visible == isOpen \/ options.inline

\* GridStart with the week begun on Sunday whatever the option says
GridStart_Sunday(t, first) == addDays(first, -getDay(first))

\* the first day of the 42 the grid shows for the month of first
GridStart(t, first) == addDays(first, -((getDay(first) - t.options.firstDayOfWeek + 7) % 7))

\* the dates of the cells _render gives the days grid of a calendar, in order
GridCells(t) ==
  Bind(GridStart(t, startOfMonth(t.currentViewMonth)), LAMBDA gridStart :
    [i \in 1..42 |-> addDays(gridStart, i - 1)])

\* whether the last _render gave the day a cell with click handlers: the day is
\* among the 42 of the displayed month and was neither out of bounds nor disabled
CellEnabled(dayDate) ==
  /\ daysGrid
  /\ options.scheduleMode # "weekly"
  /\ grid.kind = "calendar"
  /\ Bind(GridStart(This, startOfMonth(grid.month)), LAMBDA gridStart :
       gridStart <= dayDate /\ dayDate < addDays(gridStart, 42))
  /\ ~isDateOutOfBounds(dayDate, grid.minDate, grid.maxDate)
  /\ dayDate \notin grid.disableDates

\* ------------------------------------------------------------------ actions
\* the variables hold the object t
Holds(t) ==
  /\ options = t.options
  /\ selectedDate = t.selectedDate
  /\ rangeStart = t.rangeStart
  /\ rangeEnd = t.rangeEnd
  /\ hoveringDate = t.hoveringDate
  /\ startHours = t.startHours
  /\ startMinutes = t.startMinutes
  /\ endHours = t.endHours
  /\ endMinutes = t.endMinutes
  /\ timeHours = t.timeHours
  /\ timeMinutes = t.timeMinutes
  /\ focusedDate = t.focusedDate
  /\ currentViewMonth = t.currentViewMonth
  /\ isOpen = t.isOpen
  /\ scheduleWeeklySelected = t.scheduleWeeklySelected
  /\ scheduleMonthlySelected = t.scheduleMonthlySelected
  /\ timeRow = t.timeRow
  /\ timeRangeRow = t.timeRangeRow
  /\ daysGrid = t.daysGrid
  /\ grid = t.grid
  /\ inputValue = t.inputValue
  /\ clockTimer = t.clockTimer
  /\ timers = t.timers
  /\ calls = t.calls
  /\ changeEvents = t.changeEvents
  /\ raised = t.raised

\* the state of an object t just constructed
Constructed(t) ==
  /\ Holds(t)
  /\ lastOp = "constructor"
  /\ lastArg = NullArg
  /\ returned = NULL

Init ==
  \E initialOptions \in InitialOptions :
    \E existingValue \in InitialValues(initialOptions) :
      Constructed(Constructor(initialOptions, existingValue, Now))

\* focus or click on the input
Open == Becomes(open(This), "open", NullArg)

\* Escape, or a click outside the popover
Close == Becomes(close(This), "close", NullArg)

\* a click on the input of a picker that does not open on focus, or toggle()
Toggle == Becomes(toggle(This), "toggle", NullArg)

\* destroy()
Destroy == Becomes(destroy(This), "destroy", NullArg)

\* the click handler of a day cell of a single picker
CellClickSingle(t, dayDate) ==
  Bind(_selectDate(t, dayDate, "user"), LAMBDA t1 :
    IF /\ ~t1.options.confirm /\ t1.options.autoClose
       /\ ~t1.options.inline /\ ~t1.options.enableTime
    THEN close(t1) ELSE t1)

\* click on the cell of dayDate
CellClickOn(dayDate) ==
  /\ Visible /\ CellEnabled(dayDate)
  /\ Becomes(IF grid.range THEN _handleRangeClick(This, dayDate)
             ELSE CellClickSingle(This, dayDate),
             "cellClick", DateArg(dayDate))

CellClick == \E dayDate \in Days : CellClickOn(dayDate)

\* the pointer enters the cell of a day
CellMouseEnter ==
  \E dayDate \in Days :
    /\ Visible /\ CellEnabled(dayDate) /\ grid.range
    /\ Becomes(IF options.range /\ rangeStart # NULL /\ rangeEnd = NULL
               THEN [This EXCEPT !.hoveringDate = startOfDay(dayDate)]
               ELSE This,
               "mouseenter", NullArg)

\* the pointer leaves the days grid
GridMouseLeave ==
  /\ Visible /\ daysGrid /\ options.scheduleMode # "weekly"
  /\ Becomes(IF options.range /\ hoveringDate # NULL
             THEN [This EXCEPT !.hoveringDate = NULL]
             ELSE This,
             "mouseleave", NullArg)

\* the target of Enter or Space
KeyTarget(t, now) ==
  startOfDay(IF t.focusedDate # NULL THEN t.focusedDate
             ELSE IF t.selectedDate # NULL THEN t.selectedDate
             ELSE now)

\* _onKeyDown for Enter and Space, target being the focused date
SelectByKey(t, target) ==
  IF t.options.scheduleMode = "monthly" THEN _toggleMonthlyDay(t, getDate(target), TRUE)
  ELSE IF t.options.scheduleMode = "weekly" THEN _toggleWeeklyDay(t, getDay(target), TRUE)
  ELSE IF isDateOutOfBounds(target, t.options.minDate, t.options.maxDate) THEN t
  ELSE IF Disabled(t, target) THEN t
  ELSE IF t.options.range THEN _handleRangeClick(t, target)
  ELSE CloseUnlessConfirm(_selectDate(t, target, "user"))

\* Enter or Space in the calendar
KeyEnter ==
  /\ Visible
  /\ Becomes(SelectByKey(This, KeyTarget(This, Now)), "keyEnter", NullArg)

\* the keys of _onKeyDown that move the focus
NavigationKeys ==
  {"ArrowLeft", "ArrowRight", "ArrowUp", "ArrowDown", "Home", "End", "PageUp", "PageDown"}
KeyArg(key) == [key |-> key]

\* _onKeyDown: nextFocus for a key, from baseDate
NextFocus(t, key, baseDate) ==
  CASE key = "ArrowLeft" -> addDays(baseDate, -1)
    [] key = "ArrowRight" -> addDays(baseDate, 1)
    [] key = "ArrowUp" -> addDays(baseDate, -7)
    [] key = "ArrowDown" -> addDays(baseDate, 7)
    [] key = "Home" -> startOfWeek(baseDate, t.options.firstDayOfWeek)
    [] key = "End" -> addDays(startOfWeek(baseDate, t.options.firstDayOfWeek), 6)
    [] key = "PageUp" -> addMonths(baseDate, -1)
    [] key = "PageDown" -> addMonths(baseDate, 1)

\* _onKeyDown with the displayed month left where it was
_onKeyDown_ViewKept(t, key, now) ==
  _render([t EXCEPT !.focusedDate =
             startOfDay(NextFocus(t, key,
                                  IF t.focusedDate # NULL THEN t.focusedDate
                                  ELSE IF t.selectedDate # NULL THEN t.selectedDate
                                  ELSE now))])

\* _onKeyDown with the date focused becoming the date selected
_onKeyDown_Selecting(t, key, now) ==
  Bind(_onKeyDown_ViewKept(t, key, now), LAMBDA t1 :
    [t1 EXCEPT !.selectedDate = t1.focusedDate,
               !.currentViewMonth = startOfMonth(t1.focusedDate)])

\* _onKeyDown for a key that moves the focus: the focus is set, the displayed
\* month follows it, the grid is rendered
_onKeyDown(t, key, now) ==
  Bind(startOfDay(NextFocus(t, key,
                            IF t.focusedDate # NULL THEN t.focusedDate
                            ELSE IF t.selectedDate # NULL THEN t.selectedDate
                            ELSE now)),
       LAMBDA nextFocus :
         _render([t EXCEPT !.focusedDate = nextFocus,
                           !.currentViewMonth =
                              IF startOfMonth(nextFocus) # @
                              THEN startOfMonth(nextFocus) ELSE @]))

_goToPreviousMonth(t) ==
  _render([t EXCEPT !.currentViewMonth = addMonths(t.currentViewMonth, -1)])
_goToNextMonth(t) ==
  _render([t EXCEPT !.currentViewMonth = addMonths(t.currentViewMonth, 1)])

\* the months navigation is followed through: that of the clock's reading and
\* MaxMonths before and after it
NavigationMonths == {addMonths(Now, k) : k \in (0 - MaxMonths)..MaxMonths}

\* a key that moves the focus, pressed in the calendar
KeyNavigate ==
  /\ Visible
  /\ \E key \in NavigationKeys :
       Bind(_onKeyDown(This, key, Now), LAMBDA t :
         /\ t.currentViewMonth \in NavigationMonths
         /\ Becomes(t, "keyNavigate", KeyArg(key)))

\* the buttons of the previous and of the next month
PrevMonthClick ==
  /\ Visible /\ addMonths(currentViewMonth, -1) \in NavigationMonths
  /\ Becomes(_goToPreviousMonth(This), "prevMonth", NullArg)
NextMonthClick ==
  /\ Visible /\ addMonths(currentViewMonth, 1) \in NavigationMonths
  /\ Becomes(_goToNextMonth(This), "nextMonth", NullArg)

\* the Today, Clear and Done buttons
TodayClick == Visible /\ Becomes(_selectToday(This, Now), "today", NullArg)
ClearClick == Visible /\ Becomes(_clearSelection(This), "clear", NullArg)
DoneClick  == Becomes(_commitValue(This), "commit", NullArg)

\* the hour and minute selects of the single time controls
TimeChangeTo(nh, nm) ==
  /\ Visible /\ timeRow = "attached"
  /\ Becomes(_setTime(This, nh, nm, TRUE), "timeChange", NullArg)

TimeChange ==
  \/ \E nh \in Hours : TimeChangeTo(nh, timeMinutes)
  \/ \E nm \in MinuteOptions(options.timeStep) : TimeChangeTo(timeHours, nm)

\* ApplyStartTime with the start rewritten and nobody told
ApplyStartTime_Silent(t) ==
  IF t.rangeStart # NULL
  THEN [t EXCEPT !.rangeStart = AtTime(t.rangeStart, t.startHours, t.startMinutes)]
  ELSE t

\* onStartChange after the start time sub-model is set
ApplyStartTime(t) ==
  IF t.rangeStart # NULL
  THEN _syncRangeValue(
         [t EXCEPT !.rangeStart = AtTime(t.rangeStart, t.startHours, t.startMinutes)],
         "user")
  ELSE t

\* onStartChange(nh, nm): the values of the start hour and minute selects
onStartChange(t, nh, nm) ==
  ApplyStartTime([t EXCEPT !.startHours = Max(0, Min(23, nh)),
                           !.startMinutes = clampMinuteToStep(Max(0, Min(59, nm)),
                                                              t.options.timeStep)])

\* onEndChange after the end time sub-model is set
ApplyEndTime(t) ==
  IF t.rangeEnd # NULL
  THEN _syncRangeValue(
         [t EXCEPT !.rangeEnd = AtTime(t.rangeEnd, t.endHours, t.endMinutes)],
         "user")
  ELSE t

onEndChange(t, nh, nm) ==
  ApplyEndTime([t EXCEPT !.endHours = Max(0, Min(23, nh)),
                         !.endMinutes = clampMinuteToStep(Max(0, Min(59, nm)),
                                                          t.options.timeStep)])

\* the hour and minute selects of the range time controls
RangeStartTimeChangeTo(nh, nm) ==
  /\ Visible /\ timeRangeRow = "attached"
  /\ Becomes(onStartChange(This, nh, nm), "startTimeChange", NullArg)

RangeStartTimeChange ==
  \/ \E nh \in Hours : RangeStartTimeChangeTo(nh, startMinutes)
  \/ \E nm \in MinuteOptions(options.timeStep) : RangeStartTimeChangeTo(startHours, nm)

RangeEndTimeChangeTo(nh, nm) ==
  /\ Visible /\ timeRangeRow = "attached"
  /\ Becomes(onEndChange(This, nh, nm), "endTimeChange", NullArg)

RangeEndTimeChange ==
  \/ \E nh \in Hours : RangeEndTimeChangeTo(nh, endMinutes)
  \/ \E nm \in MinuteOptions(options.timeStep) : RangeEndTimeChangeTo(endHours, nm)

\* the weekday buttons and the day-of-month cells of the schedule modes
WeeklyButtonClick ==
  /\ Visible /\ options.scheduleMode = "weekly"
  /\ \E dayIndex \in WeekdayInputs :
       Becomes(_toggleWeeklyDay(This, dayIndex, TRUE), "toggleWeeklyDay",
               DayArg(dayIndex))

MonthlyCellClick ==
  /\ Visible /\ daysGrid /\ options.scheduleMode # "weekly" /\ grid.kind = "monthly"
  /\ \E dayOfMonth \in MonthdayInputs :
       Becomes(_toggleMonthlyDay(This, dayOfMonth, TRUE), "toggleMonthlyDay",
               DayArg(dayOfMonth))

\* the public methods
SetDateTo(arg) == Becomes(setDate(This, arg, ""), "setDate", arg)
SetDate == \E arg \in SetDateInputs : SetDateTo(arg)

\* _applySelection as far as its call of onSelect, the function called and not
\* yet returned
ApplySelectionToCallback(t, dateTime, source) ==
  Invoke(_render([t EXCEPT !.selectedDate = dateTime,
                           !.focusedDate = startOfDay(dateTime)]),
         "onSelect", dateTime, formatDate(dateTime, t.options.format),
         SourceOr(source))

\* _applySelection from the return of onSelect on
ApplySelectionFromCallback(t, formatted) ==
  IF ~t.options.confirm
  THEN DispatchChange([t EXCEPT !.inputValue = formatted])
  ELSE t

\* an operation is inside its call of onSelect: lastOp is "onSelect" and
\* lastArg holds the date setDate was called with and the text
\* _applySelection formatted before the call
InsideOnSelect == lastOp = "onSelect"
\* the object inside an operation, with the calls and events made so far
Running == [This EXCEPT !.calls = calls, !.changeEvents = changeEvents]

\* setDate(date) of a single picker of whole days, as far as its call of
\* onSelect
EnterSetDate ==
  /\ ~InsideOnSelect
  /\ ~options.range /\ options.scheduleMode = "none" /\ ~options.enableTime
  /\ \E date \in Days :
       /\ ~isDateOutOfBounds(date, options.minDate, options.maxDate)
       /\ ~Disabled(This, date)
       /\ Becomes(ApplySelectionToCallback(
                    [This EXCEPT !.currentViewMonth = startOfMonth(date)],
                    startOfDay(date), "api"),
                  "onSelect",
                  [date |-> date,
                   formatted |-> formatDate(startOfDay(date), options.format)])

\* onSelect, told of a date, calls setDate with another one (once)
SetDateInside ==
  /\ InsideOnSelect /\ Len(calls) < 2
  /\ \E date \in Days :
       /\ date # lastArg.date
       /\ Becomes(setDate(Running, DateArg(date), ""), "onSelect", lastArg)

\* onSelect returns and setDate goes on to its end
ReturnFromOnSelect ==
  /\ InsideOnSelect
  /\ Becomes(ApplySelectionFromCallback(Running, lastArg.formatted),
             "setDate", DateArg(lastArg.date))
SetRangeTo(arg) == Becomes(setRange(This, arg, ""), "setRange", arg)
SetRange == \E arg \in SetRangeInputs : SetRangeTo(arg)
SetScheduleTo(payload) == Becomes(setSchedule(This, payload, ""), "setSchedule", payload)
SetSchedule == \E payload \in SetScheduleInputs : SetScheduleTo(payload)
UpdateOptions(partials) ==
  \E partial \in partials :
    Becomes(updateOptions(This, partial), "updateOptions", NullArg)

\* the modes of the picker
SingleMode == ~options.range /\ options.scheduleMode = "none"
RangeMode == options.range /\ options.scheduleMode = "none"
ScheduleMode == options.scheduleMode # "none"

\* a single-date picker and what is done with it
InitSingle == Init /\ SingleMode
NextSingle ==
  \/ Open \/ Close \/ CellClick \/ KeyEnter \/ TodayClick \/ ClearClick \/ DoneClick
  \/ TimeChange \/ SetDate
  \/ UpdateOptions(ConfirmUpdates \cup BoundsUpdates \cup EnableTimeUpdates)
SpecSingle == InitSingle /\ [][NextSingle]_vars

\* a range picker of whole days and what is done with it
InitRange == Init /\ RangeMode /\ ~options.enableTime
NextRange ==
  \/ Open \/ Close \/ CellClick \/ CellMouseEnter \/ GridMouseLeave \/ KeyEnter
  \/ TodayClick \/ ClearClick \/ DoneClick \/ SetDate \/ SetRange
  \/ UpdateOptions(ConfirmUpdates \cup BoundsUpdates)
SpecRange == InitRange /\ [][NextRange]_vars

\* a range picker with time, no bounds, and its time selects
InitRangeTime ==
  Init /\ RangeMode /\ options.enableTime /\ options.minDate = NULL
       /\ options.maxDate = NULL /\ options.disableDates = {}
NextRangeTime ==
  \/ Open \/ CellClick \/ TodayClick \/ ClearClick \/ DoneClick
  \/ RangeStartTimeChange \/ RangeEndTimeChange \/ SetRange
SpecRangeTime == InitRangeTime /\ [][NextRangeTime]_vars

\* a weekly or monthly schedule picker and what is done with it
InitSchedule == Init /\ ScheduleMode
NextSchedule ==
  \/ Open \/ Close \/ WeeklyButtonClick \/ MonthlyCellClick \/ KeyEnter
  \/ ClearClick \/ DoneClick \/ SetSchedule
  \/ UpdateOptions(ConfirmUpdates \cup ScheduleModeUpdates \cup MultiUpdates)
SpecSchedule == InitSchedule /\ [][NextSchedule]_vars

\* the payloads setSchedule is called with by a program: days with and
\* without the mode named, and a weekday number that is none
ApiSchedulePayloads ==
  {[mode |-> "weekly", weekly |-> <<1>>], [monthly |-> <<10>>], [weekly |-> <<9>>]}

\* the methods called by a program, in whatever mode the picker is
SetDateCall == SetDateTo(DateArg(Day(1)))
SetRangeCall == SetRangeTo(PairArg(DateArg(Day(1)), DateArg(Day(2))))
SetScheduleCall == \E payload \in ApiSchedulePayloads : SetScheduleTo(payload)
HandleRangeClickCall ==
  Becomes(_handleRangeClick(This, Day(1)), "handleRangeClick", DateArg(Day(1)))
ToggleWeeklyDayCall ==
  \E n \in {1, 9} :
    Becomes(_toggleWeeklyDay(This, n, FALSE), "toggleWeeklyDay", DayArg(n))
ToggleMonthlyDayCall ==
  \E n \in {10, 40} :
    Becomes(_toggleMonthlyDay(This, n, FALSE), "toggleMonthlyDay", DayArg(n))

\* a picker of whole days, without bounds and without confirm, in any mode,
\* on a field that is empty or holds the number 9, and driven by a program alone
InitApi ==
  \E m \in {"none", "weekly", "monthly"}, r \in BOOLEAN, multi \in BOOLEAN :
    \E existingValue \in {<<>>, <<"9">>} :
      Constructed(Constructor([DefaultOptions EXCEPT !.scheduleMode = m, !.range = r,
                                                     !.scheduleWeeklyMulti = multi,
                                                     !.scheduleMonthlyMulti = multi],
                              existingValue, Now))
NextApi ==
  \/ SetDateCall \/ SetRangeCall \/ SetScheduleCall \/ HandleRangeClickCall
  \/ ToggleWeeklyDayCall \/ ToggleMonthlyDayCall
SpecApi == InitApi /\ [][NextApi]_vars

\* the options a caller may ask for together: a mode, range and time
ModeOptions ==
  {[DefaultOptions EXCEPT !.scheduleMode = m, !.range = r, !.enableTime = e,
                          !.format = IF e THEN TimeFormat ELSE DEFAULT_FORMAT] :
     m \in {"none", "weekly", "monthly"}, r \in BOOLEAN, e \in BOOLEAN}

\* the partial options that ask for a mode, for range, for time, or for all
\* three at once
ModeUpdates ==
  {[scheduleMode |-> m] : m \in {"none", "weekly", "monthly"}}
    \cup {[range |-> r] : r \in BOOLEAN}
    \cup {[enableTime |-> e] : e \in BOOLEAN}
    \cup {[scheduleMode |-> m, range |-> TRUE, enableTime |-> TRUE] :
           m \in {"none", "weekly", "monthly"}}

UpdateModeOptions ==
  \E partial \in ModeUpdates :
    Becomes(updateOptions(This, partial), "updateOptions", partial)

\* a picker constructed with any of these options, its mode changed by
\* updateOptions and by setSchedule
InitModes ==
  \E initialOptions \in ModeOptions :
    Constructed(Constructor(initialOptions, <<>>, Now))
NextModes ==
  \/ UpdateModeOptions \/ SetDateCall \/ SetRangeCall
  \/ SetScheduleTo([mode |-> "weekly", weekly |-> <<1>>])
SpecModes == InitModes /\ [][NextModes]_vars

\* 2024-03-10 09:32, a time that is on no step
OffStep == Day(1) + 9 * 60 + 32

\* a single or range picker with time, without bounds, on a field that is
\* empty or holds a time on no step; days are clicked, dates at such a time
\* are given to the setters, the time selects are used and the step is changed
InitTime ==
  \E r \in BOOLEAN : \E existingValue \in {<<>>, formatDate(OffStep, TimeFormat)} :
    Constructed(Constructor([DefaultOptions EXCEPT !.range = r, !.enableTime = TRUE,
                                                   !.format = TimeFormat],
                            existingValue, Now))
NextTime ==
  \/ Open \/ CellClick \/ TodayClick
  \/ TimeChange \/ RangeStartTimeChange \/ RangeEndTimeChange
  \/ SetDateTo(DateArg(OffStep))
  \/ SetRangeTo(PairArg(DateArg(Day(1) + 9 * 60 + 30), DateArg(OffStep)))
  \/ UpdateOptions({[timeStep |-> 10], [timeStep |-> 20]})
SpecTime == InitTime /\ [][NextTime]_vars

\* a picker of whole days without bounds, in any mode, with or without
\* confirm, whose registered callbacks return or throw; it is used by clicks and
\* by a program
InitCallbacks ==
  \E m \in {"none", "weekly", "monthly"}, r \in BOOLEAN, c \in BOOLEAN,
     throws \in BOOLEAN :
    Constructed(Constructor([DefaultOptions EXCEPT !.scheduleMode = m, !.range = r,
                                                   !.confirm = c,
                                                   !.onSelectThrows = throws],
                            <<>>, Now))
NextCallbacks ==
  \/ Open \/ CellClick \/ KeyEnter \/ TodayClick \/ ClearClick \/ DoneClick
  \/ WeeklyButtonClick \/ MonthlyCellClick
  \/ SetDateCall \/ SetRangeCall \/ SetScheduleCall
SpecCallbacks == InitCallbacks /\ [][NextCallbacks]_vars

\* a single or range picker of whole days without bounds, popover or inline,
\* with or without the analog clock and confirm; it is opened, closed, toggled
\* and destroyed, the clock is turned on and off, and days are clicked
ClockUpdates == {[showAnalogClock |-> c] : c \in BOOLEAN}
InitClock ==
  \E r \in BOOLEAN, c \in BOOLEAN, inline \in BOOLEAN, clock \in BOOLEAN :
    Constructed(Constructor([DefaultOptions EXCEPT !.range = r, !.confirm = c,
                                                   !.inline = inline,
                                                   !.showAnalogClock = clock],
                            <<>>, Now))
NextClock ==
  \/ Open \/ Close \/ Toggle \/ Destroy \/ UpdateOptions(ClockUpdates)
  \/ CellClick \/ TodayClick
SpecClock == InitClock /\ [][NextClock]_vars

\* a picker without bounds, single or range with or without time, weekly or
\* monthly, on a field that is empty or holds a selection of its mode; it is
\* opened and the focus and the displayed month are moved by keys and buttons
KeysOptions ==
  {[DefaultOptions EXCEPT !.range = r, !.enableTime = e,
                          !.format = IF e THEN TimeFormat ELSE DEFAULT_FORMAT] :
     r \in BOOLEAN, e \in BOOLEAN}
    \cup {[DefaultOptions EXCEPT !.scheduleMode = m] : m \in {"weekly", "monthly"}}
KeysValues(o) ==
  IF o.scheduleMode # "none" THEN InitialValues(o)
  ELSE IF o.range
  THEN {<<>>, _formatRangeString(Fresh(o, <<>>, Now), Day(1) + 9 * 60 + 30, Day(2))}
  ELSE {<<>>, formatDate(Day(1) + 9 * 60 + 30, o.format)}
InitKeys ==
  \E initialOptions \in KeysOptions :
    \E existingValue \in KeysValues(initialOptions) :
      Constructed(Constructor(initialOptions, existingValue, Now))
NextKeys == Open \/ KeyNavigate \/ PrevMonthClick \/ NextMonthClick
SpecKeys == InitKeys /\ [][NextKeys]_vars

\* the values firstDayOfWeek is given: weekdays, the integers next to them on
\* either side, and values that are no integer (the constructor alone is given
\* a number with a fraction: the option of the model is an integer)
FirstDayUpdates == {IntArg(n) : n \in {-1, 0, 3, 6, 7}} \cup {TextArg(Garbage)}
FirstDayInputs == FirstDayUpdates \cup {FractionArg}

\* a single picker of whole days constructed with each of these values; the
\* option is updated with them, and the picker is opened, closed and moved
\* through by keys and buttons
InitWeekStart ==
  \E arg \in FirstDayInputs :
    Constructed(Constructor([DefaultOptions EXCEPT
                               !.firstDayOfWeek = FirstDayOfWeekGiven(arg)],
                            <<>>, Now))
NextWeekStart ==
  \/ UpdateOptions({[firstDayOfWeek |-> arg] : arg \in FirstDayUpdates})
  \/ Open \/ Close \/ KeyNavigate \/ PrevMonthClick \/ NextMonthClick
SpecWeekStart == InitWeekStart /\ [][NextWeekStart]_vars

\* a single picker of whole days without bounds, with or without confirm, on
\* a field that is empty or holds a date; days are clicked, dates are set and
\* cleared, and inside setDate the function registered as onSelect may call
\* setDate itself before it returns
InitReentrant ==
  \E c \in BOOLEAN :
    \E existingValue \in InitialValues(DefaultOptions) :
      Constructed(Constructor([DefaultOptions EXCEPT !.confirm = c],
                              existingValue, Now))
NextReentrant ==
  \/ (~InsideOnSelect /\ (Open \/ CellClick \/ ClearClick \/ DoneClick \/ SetDate))
  \/ EnterSetDate \/ SetDateInside \/ ReturnFromOnSelect
SpecReentrant == InitReentrant /\ [][NextReentrant]_vars

\* ------------------------------------------- the module's functions alone
\* the dates formatted: each day at some hours of the morning and of the
\* afternoon, midnight and noon among them
FormatDates == {AtTime(d, h, m) : d \in Days, h \in {0, 1, 12, 13, 23}, m \in {0, 5, 59}}
\* the patterns: date alone, 24-hour and 12-hour time, tokens in another order
\* and with nothing between them, hours of 12 without the meridiem, the
\* meridiem right after the minutes, and a time alone
FormatPatterns ==
  {DEFAULT_FORMAT, TimeFormat,
   <<"yyyy", "-", "MM", "-", "dd", " ", "hh", ":", "mm", " ", "a">>,
   <<"a", " ", "hh", ":", "mm", " ", "dd", "/", "MM", "/", "yyyy">>,
   <<"yyyy", "MM", "dd", "HH", "mm">>,
   <<"yyyy", "-", "MM", "-", "dd", " ", "hh", ":", "mm">>,
   <<"yyyy", "-", "MM", "-", "dd", " ", "hh", ":", "mm", "a">>,
   <<"HH", ":", "mm">>}
FormatInputs == {[date |-> d, format |-> f] : d \in FormatDates, f \in FormatPatterns}

\* the minutes and the steps: steps that divide the hour and steps that do
\* not, a step longer than the hour, zero and a negative step
ClampSteps == {-5, 0, 1, 5, 7, 10, 13, 15, 30, 60, 90}
ClampInputs == {[minute |-> m, step |-> s] : m \in 0..59, s \in ClampSteps}

\* the months displayed, by one of their days: the twelve of 2024 and the
\* February of 2026, four whole weeks from a Sunday on; and the options of the
\* first day of the week
GridMonths == {NewDate(2024, k, 15, 0, 0) : k \in 0..11} \cup {NewDate(2026, 1, 15, 0, 0)}
GridInputs == {[month |-> m, firstDayOfWeek |-> f] : m \in GridMonths, f \in 0..6}

\* a function of the module returned value for the arguments in lastArg
Returns(fn, value) ==
  /\ lastOp = "input"
  /\ lastOp' = fn
  /\ returned' = value
  /\ UNCHANGED <<picker, calls, changeEvents, raised, lastArg>>

\* parseDate(formatDate(date, format), format)
FormatThenParse ==
  /\ "format" \in DOMAIN lastArg
  /\ Bind(formatDate(lastArg.date, lastArg.format), LAMBDA text :
       Returns("parseDate", [text |-> text, date |-> parseDate(text, lastArg.format)]))

\* clampMinuteToStep(minute, step)
ClampMinute ==
  /\ "step" \in DOMAIN lastArg
  /\ Returns("clampMinuteToStep",
             [minute |-> clampMinuteToStep(lastArg.minute, lastArg.step)])

\* _render of a calendar that displays the month under the first day of the week
RenderGrid ==
  /\ "month" \in DOMAIN lastArg
  /\ Returns("render",
             [cells |-> GridCells([This EXCEPT
                                     !.currentViewMonth = lastArg.month,
                                     !.options.firstDayOfWeek = lastArg.firstDayOfWeek])])

\* the arguments are chosen; no picker takes part, the variables of one hold
\* a picker of the default options
InitFunctions ==
  /\ Holds(Constructor(DefaultOptions, <<>>, Now))
  /\ lastOp = "input"
  /\ lastArg \in FormatInputs \cup ClampInputs \cup GridInputs
  /\ returned = NULL
NextFunctions == FormatThenParse \/ ClampMinute \/ RenderGrid
SpecFunctions == InitFunctions /\ [][NextFunctions]_vars

\* a picker of any of these kinds, each with what is done with it
InitAny == InitSingle \/ InitRange \/ InitRangeTime \/ InitSchedule
Next ==
  \/ SingleMode /\ NextSingle
  \/ RangeMode /\ ~options.enableTime /\ NextRange
  \/ RangeMode /\ options.enableTime /\ NextRangeTime
  \/ ScheduleMode /\ NextSchedule
Spec == InitAny /\ [][Next]_vars


\* --------------------------------------------------------------- properties
\* C1: in range mode, whenever both rangeStart and rangeEnd are set,
\* rangeStart <= rangeEnd, compared as date-times. The edits of the start and
\* end time selects break it.
C1_RangeOrdered ==
  (options.range /\ rangeStart # NULL /\ rangeEnd # NULL) => rangeStart <= rangeEnd

\* C2: from an empty range the click on a day makes that day the start and
\* leaves the end empty, and the click on another day then leaves the earlier
\* of the two days as the start and the later as the end, in either order
C2_TwoClicksOrdered ==
  [][\A d \in Days :
       (options.range /\ lastOp' = "cellClick" /\ lastArg' = DateArg(d)) =>
         /\ (rangeStart = NULL /\ rangeEnd = NULL) =>
              (rangeStart' # NULL /\ startOfDay(rangeStart') = d /\ rangeEnd' = NULL)
         /\ (rangeStart # NULL /\ rangeEnd = NULL /\ startOfDay(rangeStart) # d) =>
              /\ rangeStart' # NULL /\ rangeEnd' # NULL
              /\ startOfDay(rangeStart') = Min(startOfDay(rangeStart), d)
              /\ startOfDay(rangeEnd') = Max(startOfDay(rangeStart), d)]_vars

\* the second day was clicked first, the first day second: the range runs from
\* the first day to the second
C2_ClickedLaterDayFirst ==
  /\ options.range /\ lastOp = "cellClick" /\ lastArg = DateArg(Day(1))
  /\ rangeStart # NULL /\ startOfDay(rangeStart) = Day(1)
  /\ rangeEnd # NULL /\ startOfDay(rangeEnd) = Day(2)

\* C3 as stated: with a start and no end, the click on the day of the start
\* starts a new range there: the start is that day and the end is still empty
C3_ReclickRestarts ==
  [][\A d \in Days :
       (/\ options.range /\ rangeStart # NULL /\ rangeEnd = NULL
        /\ startOfDay(rangeStart) = d
        /\ lastOp' = "cellClick" /\ lastArg' = DateArg(d)) =>
         (rangeStart' # NULL /\ startOfDay(rangeStart') = d /\ rangeEnd' = NULL)]_vars

\* C3 amended: with a start and no end, the click on the day of the start
\* completes the range on that one day: start and end are both set, both on
\* that day, and start <= end
C3_ReclickCompletes ==
  [][\A d \in Days :
       (/\ options.range /\ rangeStart # NULL /\ rangeEnd = NULL
        /\ startOfDay(rangeStart) = d
        /\ lastOp' = "cellClick" /\ lastArg' = DateArg(d)) =>
         /\ rangeStart' # NULL /\ rangeEnd' # NULL
         /\ startOfDay(rangeStart') = d /\ startOfDay(rangeEnd') = d
         /\ rangeStart' <= rangeEnd']_vars

\* a click gave the range its end on the day of its start
C3_RangeOfOneDay ==
  /\ options.range /\ lastOp = "cellClick"
  /\ rangeStart # NULL /\ rangeEnd # NULL
  /\ lastArg = DateArg(startOfDay(rangeStart))
  /\ startOfDay(rangeEnd) = startOfDay(rangeStart)


\* whether the options reject the date: it is out of bounds or its day is disabled
Rejected(d) ==
  isDateOutOfBounds(d, options.minDate, options.maxDate) \/ Disabled(This, d)

\* the text of 2024-03-15 in the default format
Text_2024_03_15 == <<"2", "0", "2", "4", "-", "0", "3", "-", "1", "5">>

\* C4: in single mode without confirm, after the click on the cell of an
\* accepted day, or setDate with an accepted date, the selection is that date
\* (a clicked day at the time of the time selects when time is enabled), the
\* field holds the date in the format (2024-03-15 for the 15th of March 2024
\* in yyyy-MM-dd), and onSelect was invoked once, with the date and that text
C4_SelectStoresFormatsNotifies ==
  (SingleMode /\ ~options.confirm) =>
    /\ \A d \in Days :
         (lastOp = "cellClick" /\ lastArg = DateArg(d) /\ ~Rejected(d)) =>
           /\ selectedDate = IF options.enableTime
                             THEN AtTime(d, timeHours, timeMinutes) ELSE d
           /\ inputValue = formatDate(selectedDate, options.format)
           /\ calls = <<[cb |-> "onSelect", value |-> selectedDate,
                         formatted |-> inputValue, source |-> "user"]>>
    /\ \A arg \in SetDateInputs :
         (/\ lastOp = "setDate" /\ lastArg = arg
          /\ _normalizeDate(This, arg) # NULL
          /\ ~Rejected(_normalizeDate(This, arg))) =>
           /\ selectedDate = _normalizeDate(This, arg)
           /\ inputValue = formatDate(selectedDate, options.format)
           /\ calls = <<[cb |-> "onSelect", value |-> selectedDate,
                         formatted |-> inputValue, source |-> "api"]>>
    /\ (/\ lastOp \in {"cellClick", "setDate"} /\ selectedDate = Day(2)
        /\ lastArg \in {DateArg(Day(2)), TextArg(Text_2024_03_15)}
        /\ options.format = DEFAULT_FORMAT /\ ~Rejected(Day(2))) =>
         inputValue = Text_2024_03_15

\* the cell of 2024-03-15 was clicked in a single picker without confirm
C4_Clicked_2024_03_15 ==
  /\ SingleMode /\ ~options.confirm
  /\ lastOp = "cellClick" /\ lastArg = DateArg(Day(2))
  /\ selectedDate = Day(2) /\ inputValue = Text_2024_03_15 /\ Len(calls) = 1

\* C5: the Clear action, in every mode and with or without confirm, empties
\* the selection of the mode and invokes the callback of the mode once with
\* the empty value (null, {start: null, end: null}, an empty array) and the
\* empty string; without confirm the field is the empty string after it
C5_ClearEmptiesAndNotifies ==
  lastOp = "clear" =>
    /\ SingleMode =>
         /\ selectedDate = NULL
         /\ calls = <<[cb |-> "onSelect", value |-> NULL, formatted |-> <<>>,
                       source |-> "user"]>>
    /\ RangeMode =>
         /\ rangeStart = NULL /\ rangeEnd = NULL
         /\ calls = <<[cb |-> "onSelectRange", value |-> [start |-> NULL, end |-> NULL],
                       formatted |-> <<>>, source |-> "user"]>>
    /\ options.scheduleMode = "weekly" => scheduleWeeklySelected = {}
    /\ options.scheduleMode = "monthly" => scheduleMonthlySelected = {}
    /\ ScheduleMode =>
         /\ Len(calls) = 1 /\ calls[1].cb = "onSelectSchedule"
         /\ calls[1].value.array = <<>> /\ calls[1].formatted = <<>>
    /\ ~options.confirm => inputValue = <<>>

\* Clear in a weekly picker under confirm, the field still holding its text
C5_ClearedUnderConfirm ==
  /\ lastOp = "clear" /\ options.confirm /\ options.scheduleMode = "weekly"
  /\ inputValue # <<>> /\ scheduleWeeklySelected = {} /\ Len(calls) = 1

\* the operation left the selection, the field, the displayed month and the
\* time of day as they were, invoked no callback and raised nothing
C6_NoOp ==
  /\ UNCHANGED <<selectedDate, inputValue, currentViewMonth, timeHours, timeMinutes>>
  /\ calls' = <<>> /\ ~raised'

\* C6: in single mode, setDate with a text that is no date or with a date the
\* options reject, Enter or Space on a rejected focused date, and the Today
\* button on a rejected today are no-ops; and no cell click acts on a rejected
\* day (its cell has no click handler)
C6_RejectedSelectIsNoOp ==
  [][SingleMode =>
       /\ \A arg \in SetDateInputs :
            (/\ lastOp' = "setDate" /\ lastArg' = arg /\ ~Falsy(arg)
             /\ \/ _normalizeDate(This, arg) = NULL
                \/ Rejected(_normalizeDate(This, arg))) => C6_NoOp
       /\ (lastOp' = "keyEnter" /\ Rejected(KeyTarget(This, Now))) => C6_NoOp
       /\ (lastOp' = "today" /\ Rejected(startOfDay(Now))) => C6_NoOp
       /\ \A d \in Days :
            (lastOp' = "cellClick" /\ lastArg' = DateArg(d)) => ~Rejected(d)]_vars

\* setDate was given the first day, below the minimum, and the selection is
\* still the second day
C6_SetDateBelowMin ==
  /\ SingleMode /\ lastOp = "setDate" /\ lastArg = DateArg(Day(1))
  /\ options.minDate = Day(2) /\ selectedDate = Day(2) /\ calls = <<>>


\* whether one of the dates is rejected by the options
C7_NamesRejected(dates) == \E d \in dates \ {NULL} : Rejected(d)

\* setDate or setRange of a range picker was called with a Date or a date
\* string (setDate) or a pair (setRange) naming a date the options reject
C7_RejectedCall ==
  /\ RangeMode
  /\ \/ \E arg \in SetDateInputs :
          /\ lastOp' = "setDate" /\ lastArg' = arg
          /\ C7_NamesRejected({_normalizeDate(This, arg)})
     \/ \E arg \in SetRangeInputs :
          /\ lastOp' = "setRange" /\ lastArg' = arg /\ IsPairArg(arg)
          /\ C7_NamesRejected({_normalizeDate(This, arg.pair[1]),
                               _normalizeDate(This, arg.pair[2])})

C8_Valid(d) == IF d = NULL \/ Rejected(d) THEN NULL ELSE d

\* the two endpoints an argument of setRange gives: the members of a pair, the
\* two parts of a string around the separator
C8_Given(arg) ==
  IF IsPairArg(arg)
  THEN <<_normalizeDate(This, arg.pair[1]), _normalizeDate(This, arg.pair[2])>>
  ELSE IF IsTextArg(arg) /\ Len(Split(arg.text, options.rangeSeparator)) = 2
  THEN <<KeepTime(This, parseDate(Trim(Split(arg.text, options.rangeSeparator)[1]),
                                  options.format)),
         KeepTime(This, parseDate(Trim(Split(arg.text, options.rangeSeparator)[2]),
                                  options.format))>>
  ELSE <<NULL, NULL>>

\* C8: setRange never raises; of the two endpoints given, those that are no
\* date, out of bounds or disabled are stored as empty and the others are
\* kept; two endpoints that remain are stored with start <= end, also when
\* they were given reversed
C8_SetRangeDropsAndOrders ==
  [][\A arg \in SetRangeInputs :
       (RangeMode /\ lastOp' = "setRange" /\ lastArg' = arg) =>
         /\ ~raised'
         /\ ~Falsy(arg) =>
              /\ {rangeStart', rangeEnd'} \ {NULL}
                   = {C8_Valid(C8_Given(arg)[1]), C8_Valid(C8_Given(arg)[2])} \ {NULL}
              /\ (C8_Valid(C8_Given(arg)[1]) # NULL /\ C8_Valid(C8_Given(arg)[2]) # NULL)
                   => (rangeStart' # NULL /\ rangeEnd' # NULL)
              /\ (rangeStart' # NULL /\ rangeEnd' # NULL) => rangeStart' <= rangeEnd']_vars

\* setRange was given the second day and the first, reversed, the first below
\* the minimum: the first is dropped and the second kept
C8_ReversedPairOneDropped ==
  /\ RangeMode /\ lastOp = "setRange"
  /\ lastArg = PairArg(DateArg(Day(2)), DateArg(Day(1)))
  /\ options.minDate = Day(2) /\ ~raised
  /\ rangeStart = NULL /\ rangeEnd = Day(2)

\* C9: while confirm is on, no operation other than the commit of the Done
\* button changes the text of the field
C9_FieldKeptUnderConfirm ==
  [][(options.confirm /\ lastOp' # "commit") => inputValue' = inputValue]_vars

\* under confirm the second day was clicked while the field holds the first
C9_ClickedUnderConfirm ==
  /\ options.confirm /\ SingleMode /\ lastOp = "cellClick"
  /\ selectedDate = Day(2) /\ inputValue = formatDate(Day(1), DEFAULT_FORMAT)

C11_RangeText ==
  IF rangeStart # NULL /\ rangeEnd # NULL
  THEN formatDate(rangeStart, options.format) \o options.rangeSeparator
         \o formatDate(rangeEnd, options.format)
  ELSE IF rangeStart # NULL THEN formatDate(rangeStart, options.format)
  ELSE <<>>

\* C11: the commit of a picker with confirm leaves the selection as it is,
\* sets the field to the text of the selection held in the mode in force (the
\* formatted date, the range string, the comma-joined schedule) and invokes
\* the callback of that mode once, with the selection and that text; the commit
\* of a picker without confirm changes nothing and invokes nothing
C11_CommitWritesAndNotifies ==
  [][lastOp' = "commit" =>
       IF options.confirm
       THEN /\ UNCHANGED <<options, selectedDate, rangeStart, rangeEnd,
                           scheduleWeeklySelected, scheduleMonthlySelected>>
            /\ Len(calls') = 1 /\ calls'[1].formatted = inputValue'
            /\ SingleMode =>
                 /\ inputValue' = IF selectedDate = NULL THEN <<>>
                                  ELSE formatDate(selectedDate, options.format)
                 /\ calls'[1].cb = "onSelect" /\ calls'[1].value = selectedDate
            /\ RangeMode =>
                 /\ inputValue' = C11_RangeText
                 /\ calls'[1].cb = "onSelectRange"
                 /\ calls'[1].value = [start |-> rangeStart, end |-> rangeEnd]
            /\ ScheduleMode =>
                 /\ inputValue' = JoinNumbers(_formatScheduleArray(This))
                 /\ calls'[1].cb = "onSelectSchedule"
                 /\ calls'[1].value.mode = options.scheduleMode
                 /\ calls'[1].value.weekly = scheduleWeeklySelected
                 /\ calls'[1].value.monthly = scheduleMonthlySelected
                 /\ calls'[1].value.array = _formatScheduleArray(This)
       ELSE UNCHANGED picker /\ calls' = <<>> /\ changeEvents' = 0 /\ ~raised']_vars

\* the commit of a range picker with confirm wrote the two days of its range
\* to the field, which held another text before
C11_CommittedRange ==
  /\ lastOp = "commit" /\ options.confirm /\ RangeMode
  /\ rangeStart = Day(1) /\ rangeEnd = Day(2)
  /\ options.format = DEFAULT_FORMAT
  /\ inputValue = formatDate(Day(1), DEFAULT_FORMAT) \o options.rangeSeparator
                    \o Text_2024_03_15
  /\ Len(calls) = 1

\* C12: every invocation of onSelect, onSelectRange or onSelectSchedule,
\* whichever operation makes it, carries the source 'user' or the source 'api'.
\* The commit invokes them with the source 'confirm'.
C12_SourceIsUserOrApi ==
  \A i \in 1..Len(calls) : calls[i].source \in {"user", "api"}

\* the operation left the selections, the field and the options as they were
\* and invoked no callback
C13_NoOp ==
  /\ UNCHANGED <<options, selectedDate, rangeStart, rangeEnd, scheduleWeeklySelected,
                 scheduleMonthlySelected, inputValue>>
  /\ calls' = <<>>

\* whether a payload of setSchedule is one for another mode than the one in
\* force: it names another mode, or holds the days of the other schedule only
C13_ForAnotherMode(payload) ==
  \/ Has(payload, "mode") /\ payload.mode # options.scheduleMode
  \/ options.scheduleMode # "weekly" /\ Has(payload, "weekly") /\ ~Has(payload, "monthly")
  \/ options.scheduleMode # "monthly" /\ Has(payload, "monthly") /\ ~Has(payload, "weekly")

\* C13: an operation of another mode than the one in force is a no-op: setRange
\* and handleRangeClick outside range mode, toggleWeeklyDay outside weekly mode,
\* toggleMonthlyDay outside monthly mode, setDate in a schedule mode, and
\* setSchedule with a payload for another mode. setDate and setSchedule are not.
C13_MismatchedIsNoOp ==
  [][/\ (lastOp' \in {"setRange", "handleRangeClick"} /\ ~options.range) => C13_NoOp
     /\ (lastOp' = "toggleWeeklyDay" /\ options.scheduleMode # "weekly") => C13_NoOp
     /\ (lastOp' = "toggleMonthlyDay" /\ options.scheduleMode # "monthly") => C13_NoOp
     /\ (lastOp' = "setDate" /\ ScheduleMode) => C13_NoOp
     /\ (lastOp' = "setSchedule" /\ C13_ForAnotherMode(lastArg')) => C13_NoOp]_vars

\* C14: in every state, whatever options the constructor was given and
\* whatever updateOptions was called with since, a picker in the weekly or the
\* monthly mode has neither range nor time enabled
C14_ScheduleWithoutRangeAndTime ==
  options.scheduleMode \in {"weekly", "monthly"} =>
    (~options.range /\ ~options.enableTime)

\* updateOptions({range: true}) was called on a monthly picker, which is still
\* monthly and without range
C14_RangeAskedInSchedule ==
  /\ lastOp = "updateOptions" /\ lastArg = [range |-> TRUE]
  /\ options.scheduleMode = "monthly" /\ ~options.range /\ ~options.enableTime

\* C15: the hover preview is empty unless the picker is in range mode with a
\* start and without an end: it is empty once a range is complete, after a
\* change of mode and after the pointer left the grid. setRange, and with it
\* the Today button, complete a range without emptying it.
C15_HoverOnlyWhileChoosingEnd ==
  hoveringDate # NULL => (options.range /\ rangeStart # NULL /\ rangeEnd = NULL)

\* the set of weekdays or of days of the month of the mode in force
C16_ActiveSet ==
  IF options.scheduleMode = "weekly" THEN scheduleWeeklySelected
  ELSE scheduleMonthlySelected

\* whether the last operation toggled day n in the mode in force
C16_Toggled(n) ==
  /\ lastArg' = DayArg(n)
  /\ \/ lastOp' = "toggleWeeklyDay" /\ options.scheduleMode = "weekly"
        /\ options.scheduleWeeklyMulti
     \/ lastOp' = "toggleMonthlyDay" /\ options.scheduleMode = "monthly"
        /\ options.scheduleMonthlyMulti

\* C16: in a schedule mode with multi-select, the toggle of a day puts it into
\* the set when it is not in it and takes it out when it is, leaves the other
\* days as they are, and invokes onSelectSchedule once, with the days of the
\* set in its array; so the toggle of Monday (1) and Friday (5) from the empty
\* weekly set gives the array [1, 5], and the toggle of Monday again gives [5]
C16_ToggleAddsOrRemoves ==
  [][\A n \in WeekdayInputs \cup MonthdayInputs :
       C16_Toggled(n) =>
         /\ C16_ActiveSet' = IF n \in C16_ActiveSet THEN C16_ActiveSet \ {n}
                             ELSE C16_ActiveSet \cup {n}
         /\ Len(calls') = 1 /\ calls'[1].cb = "onSelectSchedule"
         /\ calls'[1].source = "user"
         /\ calls'[1].value.array = _formatScheduleArray(
              [options |-> options', scheduleWeeklySelected |-> scheduleWeeklySelected',
               scheduleMonthlySelected |-> scheduleMonthlySelected'])
         /\ (options.scheduleMode = "weekly" /\ C16_ActiveSet = {} /\ n = 1) =>
              calls'[1].value.array = <<1>>
         /\ (options.scheduleMode = "weekly" /\ C16_ActiveSet = {1} /\ n = 5) =>
              calls'[1].value.array = <<1, 5>>
         /\ (options.scheduleMode = "weekly" /\ C16_ActiveSet = {1, 5} /\ n = 1) =>
              calls'[1].value.array = <<5>>]_vars

\* Monday was toggled a second time in a weekly picker with multi-select: of
\* Monday and Friday, Friday is left
C16_MondayToggledTwice ==
  /\ options.scheduleMode = "weekly" /\ options.scheduleWeeklyMulti
  /\ lastOp = "toggleWeeklyDay" /\ lastArg = DayArg(1)
  /\ scheduleWeeklySelected = {5}
  /\ Len(calls) = 1 /\ calls[1].value.array = <<5>>

\* whether the numbers of an array ascend
C17_Ascending(arr) == \A i \in 1..(Len(arr) - 1) : arr[i] < arr[i + 1]

\* the number a day of the set of the mode in force is shown as: Monday 1 to
\* Sunday 7 for a weekday, the day itself for a day of the month
C17_Shown(d) == IF options.scheduleMode = "weekly" /\ d = 0 THEN 7 ELSE d

\* C17: in a schedule mode the array of getSchedule() holds the numbers the
\* selected days are shown as, each once, in ascending order, and the text a
\* notification carries is that array joined by commas. With Sunday and
\* another weekday selected, 7 comes first.
C17_SerializedAscending ==
  ScheduleMode =>
    /\ {_formatScheduleArray(This)[i] : i \in 1..Len(_formatScheduleArray(This))}
         = {C17_Shown(d) : d \in C16_ActiveSet}
    /\ Len(_formatScheduleArray(This)) = Cardinality(C16_ActiveSet)
    /\ C17_Ascending(_formatScheduleArray(This))
    /\ \A i \in 1..Len(calls) :
         calls[i].cb = "onSelectSchedule" =>
           /\ C17_Ascending(calls[i].value.array)
           /\ calls[i].formatted = JoinNumbers(calls[i].value.array)

\* C18: in every state, when multi-select is off for the schedule mode in
\* force, the set of that mode holds at most one day. setSchedule, the field
\* read by the constructor and updateOptions switching multi-select off leave
\* more.
C18_SingleSelectHoldsOneDay ==
  /\ (options.scheduleMode = "weekly" /\ ~options.scheduleWeeklyMulti) =>
       Cardinality(scheduleWeeklySelected) <= 1
  /\ (options.scheduleMode = "monthly" /\ ~options.scheduleMonthlyMulti) =>
       Cardinality(scheduleMonthlySelected) <= 1

\* C19: in every state the weekly set holds integers from 0 to 6 only and the
\* monthly set integers from 1 to 31 only, whatever the toggles and
\* setSchedule were given and whatever the field held at construction, so that
\* the array of getSchedule() holds no number twice and none out of range.
\* setSchedule and the constructor store the numbers as given.
C19_DaysInRange ==
  /\ scheduleWeeklySelected \subseteq 0..6
  /\ scheduleMonthlySelected \subseteq 1..31
  /\ \A i, j \in 1..Len(_formatScheduleArray(This)) :
       /\ i # j => _formatScheduleArray(This)[i] # _formatScheduleArray(This)[j]
       /\ _formatScheduleArray(This)[i] \in
            (IF options.scheduleMode = "weekly" THEN 1..7 ELSE 1..31)

\* the range state a claim compares: the start, the end and the hover preview
C20_RangeState(t) == <<t.rangeStart, t.rangeEnd, t.hoveringDate>>

\* C20: in range mode the Today button, and Enter or Space on the focused
\* date, leave the same start, end and hover preview as _handleRangeClick on
\* that same date would have left from the same state, whether the range was
\* empty, had its start only or had both ends. The Today button goes through
\* setRange with its own cases and does not.
C20_TodayAndKeyActAsClick ==
  [][/\ (lastOp' = "today" /\ options.range /\ ~Rejected(startOfDay(Now)))
          => <<rangeStart', rangeEnd', hoveringDate'>>
               = C20_RangeState(_handleRangeClick(This, startOfDay(Now)))
     /\ (lastOp' = "keyEnter" /\ options.range /\ ~Rejected(KeyTarget(This, Now)))
          => <<rangeStart', rangeEnd', hoveringDate'>>
               = C20_RangeState(_handleRangeClick(This, KeyTarget(This, Now)))]_vars

\* the operations of a user that may complete a selection
C21_Interactive == {"cellClick", "keyEnter", "today", "clear"}

\* C21: an interactive selection (cell click, Enter or Space, the Today
\* button, Clear) closes an open popover only when autoClose is on and none
\* of these holds: confirm mode, inline display, time-of-day editing in single
\* mode; otherwise the popover stays open. The Today button of a single
\* picker closes it under confirm and with time enabled.
C21_PopoverStaysOpen ==
  [][(lastOp' \in C21_Interactive /\ isOpen /\ ~isOpen')
       => /\ options.autoClose
          /\ ~options.confirm
          /\ ~options.inline
          /\ ~(options.enableTime /\ ~options.range /\ options.scheduleMode = "none")]_vars

\* whether the pattern holds the token
C22_Has(format, tok) == \E k \in 1..Len(format) : format[k] = tok

\* C22: parseDate(formatDate(date, pattern), pattern) is a date of the same
\* calendar day as date, and of the same hour and minute when the pattern
\* holds a token of the hour and of the minute, for every date and every
\* pattern built from the tokens. It fails for the hours of the afternoon
\* under hh without a, for a written right after mm, and without the date.
C22_RoundTrip ==
  lastOp = "parseDate" =>
    /\ returned.date # NULL
    /\ areSameCalendarDate(returned.date, lastArg.date)
    /\ (C22_Has(lastArg.format, "HH") \/ C22_Has(lastArg.format, "hh"))
         => getHours(returned.date) = getHours(lastArg.date)
    /\ C22_Has(lastArg.format, "mm") => getMinutes(returned.date) = getMinutes(lastArg.date)

\* the multiples of the step that clampMinuteToStep may choose among
C23_Multiples == {k * lastArg.step : k \in 0..60}

\* C23: for a minute m of 0..59 and a positive step s, clampMinuteToStep(m, s)
\* is, modulo 60, a multiple of s that lies at most s/2 from m, and the lower
\* multiple when m lies halfway between two of them.
C23_NearestMultiple ==
  (lastOp = "clampMinuteToStep" /\ lastArg.step > 0) =>
    /\ \E x \in C23_Multiples :
         /\ returned.minute = x % 60
         /\ 2 * (IF x > lastArg.minute THEN x - lastArg.minute ELSE lastArg.minute - x)
              <= lastArg.step
    /\ \A x \in C23_Multiples :
         2 * (lastArg.minute - x) = lastArg.step => returned.minute = x % 60

\* the minute 5 under the step 10 lies halfway between 0 and 10 and was
\* brought down to 0
C23_TieBroughtDown ==
  /\ lastOp = "clampMinuteToStep"
  /\ lastArg = [minute |-> 5, step |-> 10]
  /\ returned.minute = 0

C25_OnStep(d) == d # NULL => getMinutes(d) % options.timeStep = 0

\* C25: with time enabled, every minute held is a multiple of timeStep: the
\* minutes of the time selects (single, start, end) and the minute of the
\* selected date and of each end of the range, also when they come from the
\* field, from setDate or setRange, and right after timeStep is changed. The
\* constructor and setRange store the date as given, and a new step leaves
\* the stored date as it was.
C25_MinutesOnStep ==
  options.enableTime =>
    /\ timeMinutes % options.timeStep = 0
    /\ startMinutes % options.timeStep = 0
    /\ endMinutes % options.timeStep = 0
    /\ C25_OnStep(selectedDate)
    /\ C25_OnStep(rangeStart)
    /\ C25_OnStep(rangeEnd)

\* the date had its time replaced by hours:minutes and kept its calendar day
C26_Retimed(before, after, hours, minutes) ==
  /\ after # NULL
  /\ areSameCalendarDate(after, before)
  /\ getHours(after) = hours
  /\ getMinutes(after) = minutes

\* the one callback of the operation was cb
C26_Notified(cb) == Len(calls') = 1 /\ calls'[1].cb = cb

\* nothing was notified and nothing written
C26_Quiet == calls' = <<>> /\ changeEvents' = 0 /\ inputValue' = inputValue

\* C26: with time enabled, a change of the time selects gives the selected
\* date (single) or the end of the range the selects belong to the new hour
\* and minute, keeps its calendar day, leaves the other end of the range as it
\* was and invokes the callback; where that date is not set, only the time
\* sub-model changes and nothing is notified.
C26_TimeChangeMergesIntoSelection ==
  [][/\ lastOp' = "timeChange" =>
          IF selectedDate # NULL
          THEN /\ C26_Retimed(selectedDate, selectedDate', timeHours', timeMinutes')
               /\ C26_Notified("onSelect")
               /\ calls'[1].value = selectedDate'
          ELSE /\ C26_Quiet
               /\ UNCHANGED <<options, selectedDate, rangeStart, rangeEnd, hoveringDate,
                              startHours, startMinutes, endHours, endMinutes, isOpen>>
     /\ lastOp' = "startTimeChange" =>
          /\ rangeEnd' = rangeEnd
          /\ IF rangeStart # NULL
             THEN /\ C26_Retimed(rangeStart, rangeStart', startHours', startMinutes')
                  /\ C26_Notified("onSelectRange")
             ELSE /\ C26_Quiet
                  /\ UNCHANGED <<options, selectedDate, rangeStart, hoveringDate,
                                 endHours, endMinutes, timeHours, timeMinutes, isOpen>>
     /\ lastOp' = "endTimeChange" =>
          /\ rangeStart' = rangeStart
          /\ IF rangeEnd # NULL
             THEN /\ C26_Retimed(rangeEnd, rangeEnd', endHours', endMinutes')
                  /\ C26_Notified("onSelectRange")
             ELSE /\ C26_Quiet
                  /\ UNCHANGED <<options, selectedDate, rangeEnd, hoveringDate,
                                 startHours, startMinutes, timeHours, timeMinutes, isOpen>>
    ]_vars

\* the hour select of the start was set to 9 on a range of two clicked days:
\* the start is the first day at 09:00, the end the second day at midnight,
\* and the callback was invoked
C26_StartRetimed ==
  /\ lastOp = "startTimeChange"
  /\ rangeStart = Day(1) + 9 * 60
  /\ rangeEnd = Day(2)
  /\ Len(calls) = 1

\* the text of a range under the options o: start, separator and end, or the
\* start alone
C27_Text(o, start, end) ==
  IF end # NULL
  THEN formatDate(start, o.format) \o o.rangeSeparator \o formatDate(end, o.format)
  ELSE formatDate(start, o.format)

\* C27: in range mode without confirm, after every operation that changed the
\* range or notified of it, the field holds the formatted start, the separator
\* and the formatted end when both ends are set, and the formatted start alone
\* when only the start is set.
C27_FieldShowsRange ==
  [][(/\ options'.range /\ options'.scheduleMode = "none" /\ ~options'.confirm
      /\ options.range
      /\ (calls' # <<>> \/ <<rangeStart', rangeEnd'>> # <<rangeStart, rangeEnd>>)
      /\ rangeStart' # NULL)
       => inputValue' = C27_Text(options', rangeStart', rangeEnd')]_vars

\* the second click, on the earlier day, completed the range: the field reads
\* 2024-03-10 - 2024-03-15
C27_ClickedBackwards ==
  /\ lastOp = "cellClick" /\ lastArg = DateArg(Day(1))
  /\ options.range /\ ~options.confirm
  /\ rangeStart = Day(1) /\ rangeEnd = Day(2)
  /\ inputValue = <<"2", "0", "2", "4", "-", "0", "3", "-", "1", "0", " ", "-", " ",
                    "2", "0", "2", "4", "-", "0", "3", "-", "1", "5">>

\* the calendar day of d is the day of minDate or later and the day of maxDate
\* or earlier, where these are set, and the day is not disabled
C28_DayAllowed(d) ==
  /\ options.minDate = NULL \/ startOfDay(options.minDate) <= startOfDay(d)
  /\ options.maxDate = NULL \/ startOfDay(d) <= startOfDay(options.maxDate)
  /\ ~Disabled(This, d)

\* C28: the bounds include their own days, compared by calendar date: a date
\* whose day is allowed is selected by setDate, each allowed end is kept by
\* setRange, and the cell of an allowed day of the grid takes clicks, also when
\* time is enabled and the date given is at a time other than midnight. With
\* time enabled the date is compared with its time against maxDate at midnight.
C28_BoundsIncludeTheirDays ==
  [][/\ (lastOp' = "setDate" /\ IsDateArg(lastArg') /\ SingleMode
           /\ C28_DayAllowed(lastArg'.date))
          => areSameCalendarDate(selectedDate', lastArg'.date)
     /\ (lastOp' = "setRange" /\ IsPairArg(lastArg') /\ RangeMode
           /\ IsDateArg(lastArg'.pair[1]) /\ IsDateArg(lastArg'.pair[2])
           /\ C28_DayAllowed(lastArg'.pair[1].date)
           /\ C28_DayAllowed(lastArg'.pair[2].date))
          => {rangeStart', rangeEnd'} = {KeepTime(This, lastArg'.pair[1].date),
                                         KeepTime(This, lastArg'.pair[2].date)}
     /\ \A d \in Days :
          (/\ Visible /\ daysGrid /\ options.scheduleMode = "none"
           /\ lastOp \in {"open", "updateOptions"}
           /\ C28_DayAllowed(d))
            => CellEnabled(d)]_vars

\* the days of the month displayed
C29_DaysOfMonth ==
  {d \in {addDays(startOfMonth(lastArg.month), k) : k \in 0..30} :
     getMonth(d) = getMonth(lastArg.month)}

\* C29: the grid of a calendar has 42 cells; their dates are 42 consecutive
\* days, the first of them falls on the configured first day of the week and
\* is the 1st of the displayed month or one of the six days before it, and
\* every day of the month is among them; for every month and every first day
\* of the week from 0 to 6.
C29_GridOfSixWeeks ==
  lastOp = "render" =>
    /\ Len(returned.cells) = 42
    /\ \A i \in 1..41 : returned.cells[i + 1] = returned.cells[i] + MinutesPerDay
    /\ getDay(returned.cells[1]) = lastArg.firstDayOfWeek
    /\ returned.cells[1] <= startOfMonth(lastArg.month)
    /\ startOfMonth(lastArg.month) - returned.cells[1] <= 6 * MinutesPerDay
    /\ \A d \in C29_DaysOfMonth : \E i \in 1..42 : returned.cells[i] = d

\* the grid of December 2024 with the week begun on Monday: the 1st is a
\* Sunday, the grid begins six days before it, on 2024-11-25
C29_DecemberFromMonday ==
  /\ lastOp = "render"
  /\ lastArg = [month |-> NewDate(2024, 11, 15, 0, 0), firstDayOfWeek |-> 1]
  /\ returned.cells[1] = NewDate(2024, 10, 25, 0, 0)
  /\ returned.cells[42] = NewDate(2025, 0, 5, 0, 0)

\* what the last callback of the operation was called with
C30_LastCall == calls[Len(calls)]

\* the selection as the picker holds it, in the shape that callback is given
C30_Selection ==
  IF C30_LastCall.cb = "onSelectSchedule" THEN ScheduleValue(This)
  ELSE IF C30_LastCall.cb = "onSelectRange" THEN RangeValue(This)
  ELSE selectedDate

\* C30: when the registered callbacks throw, an operation that invokes one ends
\* without an exception and complete: the picker holds the selection the
\* callback was told of, a clicked day is the selected day, and outside
\* confirm mode the field holds the text the callback
\* was told of and a change event was dispatched.
C30_CallbackFailureIsolated ==
  (options.onSelectThrows /\ calls # <<>>) =>
    /\ ~raised
    /\ C30_LastCall.value = C30_Selection
    /\ (lastOp = "cellClick" /\ SingleMode) => selectedDate = lastArg.date
    /\ ~options.confirm => (inputValue = C30_LastCall.formatted /\ changeEvents >= 1)

\* a day was clicked on a single picker without confirm whose onSelect throws:
\* the day is selected, the field holds it, one change event was dispatched
C30_ClickedWhileThrowing ==
  /\ options.onSelectThrows /\ SingleMode /\ ~options.confirm
  /\ lastOp = "cellClick" /\ lastArg = DateArg(Day(2))
  /\ Len(calls) = 1 /\ calls[1].cb = "onSelect"
  /\ selectedDate = Day(2) /\ inputValue = formatDate(Day(2), DEFAULT_FORMAT)
  /\ changeEvents = 1 /\ ~raised

\* C31: the window has at most one clock interval scheduled, the one the
\* picker holds, whatever the order of open, close, toggle, destroy and
\* updateOptions({showAnalogClock}); a popover that is closed has none, and
\* after destroy there is none.
C31_OneClockTimer ==
  /\ Cardinality(timers) <= 1
  /\ timers = (IF clockTimer = NULL THEN {} ELSE {clockTimer})
  /\ (~options.inline /\ ~isOpen) => timers = {}
  /\ lastOp = "destroy" => timers = {}

\* a popover with the clock was toggled open: one interval is scheduled
C31_ToggledOpenWithClock ==
  /\ lastOp = "toggle" /\ isOpen /\ ~options.inline /\ options.showAnalogClock
  /\ clockTimer # NULL /\ timers = {clockTimer}

\* the month of a date counted from year 0
C32_MonthNumber(date) == getFullYear(date) * 12 + getMonth(date)

\* C32: PageDown moves the focus to the same day of the month one month later
\* and PageUp to the same day of the month one month earlier, from every
\* focused day from the 1st to the 28th.
C32_PageKeysKeepTheDay ==
  [][(/\ lastOp' = "keyNavigate" /\ lastArg'.key \in {"PageUp", "PageDown"}
      /\ focusedDate # NULL /\ getDate(focusedDate) <= 28)
     => /\ getDate(focusedDate') = getDate(focusedDate)
        /\ C32_MonthNumber(focusedDate') =
             C32_MonthNumber(focusedDate)
               + (IF lastArg'.key = "PageDown" THEN 1 ELSE -1)]_vars

\* C33: right after a key that moves the focus (an arrow, Home, End, PageUp,
\* PageDown) the displayed month is the first day of the month of the focused
\* date; and the displayed month is at every moment the first day, at
\* midnight, of a month.
C33_ViewFollowsFocus ==
  /\ lastOp = "keyNavigate" => currentViewMonth = startOfMonth(focusedDate)
  /\ getDate(currentViewMonth) = 1
  /\ currentViewMonth = startOfDay(currentViewMonth)

\* ArrowUp was pressed with the focus in the first week of March 2024: the
\* focus is in February and February is displayed
C33_ArrowUpIntoFebruary ==
  /\ lastOp = "keyNavigate" /\ lastArg = KeyArg("ArrowUp")
  /\ getMonth(focusedDate) = 1 /\ getDate(focusedDate) > 1
  /\ currentViewMonth = NewDate(2024, 1, 1, 0, 0)

\* C34: the keys that move the focus and the buttons of the previous and next
\* month leave the single selection, the range, the hover preview, the
\* schedule sets, the times of day, the field's text, the options and the
\* popover as they were, invoke no callback and dispatch no change event; the
\* keys change the focus and the displayed month and the buttons the displayed
\* month alone.
C34_NavigationKeepsSelection ==
  [][lastOp' \in {"keyNavigate", "prevMonth", "nextMonth"}
     => /\ UNCHANGED <<selectedDate, rangeStart, rangeEnd, hoveringDate,
                       scheduleWeeklySelected, scheduleMonthlySelected,
                       timeHours, timeMinutes, startHours, startMinutes,
                       endHours, endMinutes, inputValue, options, isOpen,
                       timeRow, timeRangeRow, daysGrid, clockTimer, timers>>
        /\ calls' = <<>> /\ changeEvents' = 0 /\ ~raised'
        /\ lastOp' # "keyNavigate" => UNCHANGED focusedDate]_vars

\* the focus of a range picker holding 2024-03-10 - 2024-03-15 was moved by
\* PageDown to April: the range and the field are as they were
C34_RangeKeptWhileFocusMoved ==
  /\ lastOp = "keyNavigate" /\ lastArg = KeyArg("PageDown")
  /\ options.range /\ rangeStart = Day(1) /\ rangeEnd = Day(2)
  /\ inputValue = _formatRangeString(This, Day(1), Day(2))
  /\ focusedDate = NewDate(2024, 3, 1, 0, 0)
  /\ currentViewMonth = NewDate(2024, 3, 1, 0, 0)

\* C35: after construction and after every updateOptions the configured
\* firstDayOfWeek is an integer from 0 to 6.
C35_FirstDayOfWeekIsAWeekday == options.firstDayOfWeek \in 0..6

\* C36: in range mode a stored end comes with a stored start, in every state
\* reached by clicks, by setRange and setDate and by construction from a field
\* that holds a text.
C36_EndImpliesStart == RangeMode => (rangeEnd # NULL => rangeStart # NULL)

\* C37: in single mode without confirm, when onSelect has called setDate with
\* another date while it was told of a selection, the field holds, once the
\* outer setDate has returned, the text of the date then selected.
C37_FieldAgreesAfterReentry ==
  (/\ SingleMode /\ ~options.confirm
   /\ lastOp = "setDate" /\ Len(calls) = 2)
    => inputValue = formatDate(selectedDate, options.format)

\* a stored date is none, or its day is not before minDate, not after maxDate
\* and not rejected by disableDates, by the options of the moment
C38_WithinBounds(date) ==
  date = NULL
    \/ (/\ ~isDateOutOfBounds(startOfDay(date), options.minDate, options.maxDate)
        /\ ~Disabled(This, date))

\* C38: in every state the stored single selection and the stored endpoints
\* of the range satisfy the bounds in force, also after updateOptions changed
\* minDate, maxDate or disableDates and after construction from a field that
\* holds a date.
C38_SelectionWithinBounds ==
  /\ SingleMode => C38_WithinBounds(selectedDate)
  /\ RangeMode => (C38_WithinBounds(rangeStart) /\ C38_WithinBounds(rangeEnd))

\* what _parseRangeString makes of the text in the field
C39_Parsed == _parseRangeString(This, inputValue)

\* C39: in range mode without confirm, the text the picker wrote to the field
\* for its range, a complete one or one with only a start, is parsed by
\* _parseRangeString to the same start and the same end.
C39_RangeTextParsesBack ==
  (/\ RangeMode
   /\ ~options.confirm
   /\ rangeStart # NULL
   /\ inputValue = _formatRangeString(This, rangeStart, rangeEnd))
    => (/\ C39_Parsed.ok
        /\ C39_Parsed.start = rangeStart
        /\ C39_Parsed.end = rangeEnd)
































====
